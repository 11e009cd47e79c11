------------------------ MODULE MemoryTaskStoreProofs ------------------------
(***************************************************************************)
(* Proofs about the in-memory task store, for any capacity, any task IDs   *)
(* and Saves with any number of aliases.                                   *)
(***************************************************************************)
EXTENDS MemoryTaskStore, FiniteSetTheorems, SequenceTheorems, WellFoundedInduction,
        TLAPS

-----------------------------------------------------------------------------
(* The inductive invariant.                                                *)

\* The list is in the order of the Saves.
OldestFirst ==
  \A i, j \in 1..Len(ll) : i < j => lastSaved[ll[i]] <= lastSaved[ll[j]]

StoreInv ==
  /\ ll \in Seq(TaskIDs) /\ saves \in Nat
  /\ lastSaved \in [TaskIDs -> Nat]
  /\ \A id \in TaskIDs : lastSaved[id] <= saves
  /\ StoreConsistent
  /\ OldestFirst
  /\ EvictsOldestFirst

-----------------------------------------------------------------------------
(* Loops over a list.                                                      *)

\* Induction up to N, for a set of numbers.
LEMMA UpTo ==
  ASSUME NEW N \in Nat, NEW T \in SUBSET (0..N), 0 \in T,
         \A n \in 1..N : n - 1 \in T => n \in T
  PROVE  T = 0..N
<1> DEFINE R == OpToRel(<, Nat)
           U == (0..N) \ T
<1>1. SUFFICES ASSUME U # {} PROVE FALSE
  OBVIOUS
<1>2. IsWellFoundedOn(R, Nat)
  BY NatLessThanWellFounded
<1>3. ASSUME NEW i \in Nat, NEW j \in Nat, i < j
      PROVE  <<i, j>> \in R
  BY <1>3 DEF OpToRel
<1>4. U \in SUBSET Nat
  OBVIOUS
<1> HIDE DEF R, U
<1>5. PICK n \in U : \A m \in U : ~(<<m, n>> \in R)
  BY <1>1, <1>2, <1>4, WFMin
<1>6. n \in 1..N /\ n - 1 \in 0..N /\ n - 1 < n /\ n - 1 \in Nat /\ n \in Nat
  BY <1>5 DEF U
<1>7. n - 1 \in T
  BY <1>3, <1>5, <1>6 DEF U
<1>8. QED
  BY <1>5, <1>6, <1>7 DEF U

\* The rounds of a loop over values of D, and the values it goes through.
Steps(N, D) == [(1..N) \X D -> D]
IsCourse(f, N, D, base, step) ==
  /\ f \in [0..N -> D] /\ f[0] = base
  /\ \A n \in 1..N : f[n] = step[<<n, f[n - 1]>>]

\* Every loop has a course.
LEMMA Course ==
  ASSUME NEW N \in Nat, NEW D, NEW base \in D, NEW step \in Steps(N, D)
  PROVE  \E f : IsCourse(f, N, D, base, step)
<1> DEFINE P(n, f) == /\ f \in [0..n -> D] /\ f[0] = base
                      /\ \A m \in 1..n : f[m] = step[<<m, f[m - 1]>>]
           T == {n \in 0..N : \E f : P(n, f)}
<1> USE DEF Steps
<1>1. 0 \in T
  <2> DEFINE f == [m \in 0..0 |-> base]
  <2>1. f \in [0..0 -> D] /\ f[0] = base
    OBVIOUS
  <2>2. 1..0 = {} /\ 0 \in 0..N
    OBVIOUS
  <2> HIDE DEF f
  <2>3. P(0, f)
    BY <2>1, <2>2
  <2>4. QED
    BY <2>2, <2>3
<1>2. ASSUME NEW n \in 1..N, n - 1 \in T
      PROVE  n \in T
  <2>1. PICK f : P(n - 1, f)
    BY <1>2
  <2> DEFINE e == step[<<n, f[n - 1]>>]
             g == [m \in 0..n |-> IF m = n THEN e ELSE f[m]]
  <2>2. n - 1 \in 0..(n - 1) /\ n \in 0..N
    OBVIOUS
  <2>3. e \in D
    BY <2>1, <2>2
  <2>4. g \in [0..n -> D] /\ g[0] = base
    <3>1. \A m \in 0..n : m # n => m \in 0..(n - 1)
      OBVIOUS
    <3>2. 0 \in 0..n /\ 0 # n
      OBVIOUS
    <3> HIDE DEF e
    <3>3. QED
      BY <2>1, <2>3, <3>1, <3>2
  <2>5. ASSUME NEW m \in 1..n PROVE g[m] = step[<<m, g[m - 1]>>]
    <3>1. m - 1 \in 0..n /\ m - 1 # n /\ m \in 0..n
      OBVIOUS
    <3>2. g[m - 1] = f[m - 1]
      BY <3>1
    <3>3. CASE m = n
      BY <3>1, <3>2, <3>3
    <3>4. CASE m # n
      <4>1. m \in 1..(n - 1)
        BY <3>4
      <4>2. g[m] = f[m]
        BY <3>1, <3>4
      <4>3. QED
        BY <2>1, <3>2, <4>1, <4>2
    <3>5. QED
      BY <3>3, <3>4
  <2> HIDE DEF g
  <2>6. QED
    BY <2>2, <2>4, <2>5
<1>3. T = 0..N
  <2>1. T \in SUBSET (0..N)
    OBVIOUS
  <2> HIDE DEF T
  <2>2. QED
    BY <1>1, <1>2, <2>1, UpTo
<1>4. N \in T
  <2>1. N \in 0..N
    OBVIOUS
  <2> HIDE DEF T
  <2>2. QED
    BY <1>3, <2>1
<1>5. QED
  BY <1>4 DEF IsCourse

-----------------------------------------------------------------------------
(* The keys of a Save.                                                     *)

\* One alias more.
WithAlias(ks, alias) ==
  IF alias = NoID \/ Contains(ks, alias) THEN ks ELSE Append(ks, alias)

\* The equation that defines the function in UniqueKeys.
KeysBody(f, canonical, aliases) ==
  [n \in 0..Len(aliases) |->
     IF n = 0 THEN <<canonical>>
     ELSE IF aliases[n] = NoID \/ Contains(f[n - 1], aliases[n])
          THEN f[n - 1] ELSE Append(f[n - 1], aliases[n])]

\* What the keys are after n aliases.
KeysAfter(ks, canonical, aliases, n) ==
  /\ ks \in Seq(TaskIDs) /\ Len(ks) >= 1 /\ ks[1] = canonical
  /\ \A i, j \in 1..Len(ks) : ks[i] = ks[j] => i = j
  /\ \A id : Contains(ks, id) <=>
       id = canonical \/ (id # NoID /\ \E i \in 1..n : aliases[i] = id)

\* The loop of UniqueKeys has a course.
LEMMA KeysDefined ==
  ASSUME NEW canonical \in TaskIDs, NEW aliases \in Seq(TaskIDs \cup {NoID})
  PROVE  \E f : f = KeysBody(f, canonical, aliases)
<1> DEFINE N == Len(aliases)
           D == Seq(TaskIDs)
           base == <<canonical>>
           step == [p \in (1..N) \X D |-> WithAlias(p[2], aliases[p[1]])]
<1>1. N \in Nat /\ base \in D
  OBVIOUS
<1>2. ASSUME NEW n \in 1..N, NEW ks \in D PROVE WithAlias(ks, aliases[n]) \in D
  <2>1. aliases[n] \in TaskIDs \cup {NoID}
    OBVIOUS
  <2>2. QED
    BY <2>1 DEF WithAlias
<1>3. \A n \in 1..N, ks \in D : step[<<n, ks>>] = WithAlias(ks, aliases[n])
  <2> HIDE DEF N, D
  <2> QED OBVIOUS
<1>4. step \in Steps(N, D)
  <2> HIDE DEF N, D
  <2> QED BY <1>2 DEF Steps
<1> HIDE DEF step, N, D
<1>5. PICK f : IsCourse(f, N, D, base, step)
  <2> HIDE DEF base
  <2> QED BY <1>1, <1>4, Course
<1>6. ASSUME NEW n \in 0..N
      PROVE  f[n] = IF n = 0 THEN <<canonical>>
                    ELSE IF aliases[n] = NoID \/ Contains(f[n - 1], aliases[n])
                         THEN f[n - 1] ELSE Append(f[n - 1], aliases[n])
  <2>1. n # 0 => n \in 1..N /\ n - 1 \in 0..N
    BY <1>1
  <2>2. n # 0 => f[n] = WithAlias(f[n - 1], aliases[n])
    BY <1>3, <1>5, <2>1 DEF IsCourse
  <2>3. QED
    BY <1>5, <2>2 DEF WithAlias, IsCourse
<1>7. f = KeysBody(f, canonical, aliases)
  BY <1>5, <1>6 DEF KeysBody, IsCourse, N
<1>8. QED
  BY <1>7

\* A longer list has what the shorter one had, and the new element.
LEMMA AppendFacts ==
  ASSUME NEW S, NEW ks \in Seq(S), NEW e \in S
  PROVE  /\ Append(ks, e) \in Seq(S) /\ Len(Append(ks, e)) = Len(ks) + 1
         /\ Len(ks) \in Nat
         /\ \A i \in 1..Len(ks) : Append(ks, e)[i] = ks[i]
         /\ Append(ks, e)[Len(ks) + 1] = e
         /\ \A x : Contains(Append(ks, e), x) <=> Contains(ks, x) \/ x = e
<1>1. /\ Append(ks, e) \in Seq(S) /\ Len(Append(ks, e)) = Len(ks) + 1
      /\ Len(ks) \in Nat
      /\ \A i \in 1..Len(ks) : Append(ks, e)[i] = ks[i]
      /\ Append(ks, e)[Len(ks) + 1] = e
  OBVIOUS
<1>2. 1..(Len(ks) + 1) = 1..Len(ks) \cup {Len(ks) + 1}
  BY <1>1
<1>3. ASSUME NEW x PROVE Contains(Append(ks, e), x) <=> Contains(ks, x) \/ x = e
  <2>1. Contains(Append(ks, e), x) <=>
          \E i \in 1..Len(ks) \cup {Len(ks) + 1} : Append(ks, e)[i] = x
    BY <1>1, <1>2 DEF Contains
  <2>2. QED
    BY <1>1, <2>1 DEF Contains
<1>4. QED
  BY <1>1, <1>3

\* What one alias more does to the keys.
LEMMA WithAliasFacts ==
  ASSUME NEW canonical, NEW aliases \in Seq(TaskIDs \cup {NoID}),
         NEW n \in 1..Len(aliases),
         NEW ks, KeysAfter(ks, canonical, aliases, n - 1)
  PROVE  KeysAfter(WithAlias(ks, aliases[n]), canonical, aliases, n)
<1> DEFINE alias == aliases[n]
<1>1. alias \in TaskIDs \cup {NoID}
  OBVIOUS
<1>2. 1..n = 1..(n - 1) \cup {n}
  OBVIOUS
<1>3. ks \in Seq(TaskIDs) /\ Len(ks) \in Nat /\ Len(ks) >= 1
  BY DEF KeysAfter
<1>4. \A id : (\E i \in 1..n : aliases[i] = id) <=>
              (\E i \in 1..(n - 1) : aliases[i] = id) \/ id = alias
  BY <1>2
<1> HIDE DEF alias
<1>5. CASE alias = NoID \/ Contains(ks, alias)
  <2>1. WithAlias(ks, alias) = ks
    BY <1>5 DEF WithAlias
  <2>2. ASSUME NEW id
        PROVE  Contains(ks, id) <=>
                 id = canonical \/ (id # NoID /\ \E i \in 1..n : aliases[i] = id)
    BY <1>4, <1>5 DEF KeysAfter
  <2>3. QED
    BY <2>1, <2>2 DEF KeysAfter, alias
<1>6. CASE alias # NoID /\ ~Contains(ks, alias)
  <2> DEFINE new == Append(ks, alias)
  <2>1. alias \in TaskIDs
    BY <1>1, <1>6
  <2>2. /\ new \in Seq(TaskIDs) /\ Len(new) = Len(ks) + 1
        /\ \A i \in 1..Len(ks) : new[i] = ks[i]
        /\ new[Len(ks) + 1] = alias
        /\ \A x : Contains(new, x) <=> Contains(ks, x) \/ x = alias
    BY <1>3, <2>1, AppendFacts
  <2> HIDE DEF new
  <2>3. Len(new) >= 1 /\ new[1] = canonical
    BY <1>3, <2>2 DEF KeysAfter
  <2>4. ASSUME NEW i \in 1..Len(new), NEW j \in 1..Len(new), new[i] = new[j]
        PROVE  i = j
    <3>1. \A k \in 1..Len(ks) : ks[k] # alias
      BY <1>6 DEF Contains
    <3>2. i \in 1..Len(ks) \/ i = Len(ks) + 1
      BY <1>3, <2>2
    <3>3. j \in 1..Len(ks) \/ j = Len(ks) + 1
      BY <1>3, <2>2
    <3>4. QED
      BY <2>2, <2>4, <3>1, <3>2, <3>3 DEF KeysAfter
  <2>5. ASSUME NEW id
        PROVE  Contains(new, id) <=>
                 id = canonical \/ (id # NoID /\ \E i \in 1..n : aliases[i] = id)
    BY <1>4, <1>6, <2>2 DEF KeysAfter
  <2>6. WithAlias(ks, alias) = new
    BY <1>6 DEF WithAlias, new
  <2>7. QED
    BY <2>2, <2>3, <2>4, <2>5, <2>6 DEF KeysAfter, alias
<1>7. QED
  BY <1>5, <1>6

\* The keys of a Save are the canonical ID, first, and the aliases that are not
\* empty, each once (memory.go, the deduplication before the lock).
LEMMA UniqueKeysFacts ==
  ASSUME NEW canonical \in TaskIDs, NEW aliases \in Seq(TaskIDs \cup {NoID})
  PROVE  KeysAfter(UniqueKeys(canonical, aliases), canonical, aliases, Len(aliases))
<1> DEFINE N == Len(aliases)
           f == CHOOSE g : g = KeysBody(g, canonical, aliases)
           T == {n \in 0..N : KeysAfter(f[n], canonical, aliases, n)}
<1>1. N \in Nat
  OBVIOUS
<1>2. f = KeysBody(f, canonical, aliases)
  BY KeysDefined
<1>3. UniqueKeys(canonical, aliases) = f[N]
  BY DEF UniqueKeys, KeysBody
<1> HIDE DEF f
<1>4. 0 \in T
  <2>1. f[0] = <<canonical>>
    BY <1>1, <1>2 DEF KeysBody
  <2>2. KeysAfter(<<canonical>>, canonical, aliases, 0)
    BY NoIDAssumption DEF KeysAfter, Contains
  <2>3. QED
    BY <1>1, <2>1, <2>2
<1>5. ASSUME NEW n \in 1..N, n - 1 \in T PROVE n \in T
  <2>1. f[n] = WithAlias(f[n - 1], aliases[n])
    <3>1. n \in 0..N /\ n # 0
      OBVIOUS
    <3>2. QED
      BY <1>2, <3>1 DEF KeysBody, WithAlias
  <2>2. KeysAfter(f[n], canonical, aliases, n)
    BY <1>5, <2>1, WithAliasFacts
  <2>3. QED
    BY <1>1, <2>2
<1>6. T = 0..N
  <2>1. T \in SUBSET (0..N)
    OBVIOUS
  <2> HIDE DEF T
  <2>2. QED
    BY <1>1, <1>4, <1>5, <2>1, UpTo
<1>7. N \in T
  BY <1>1, <1>6
<1>8. QED
  BY <1>3, <1>7

-----------------------------------------------------------------------------
(* A part of a list.                                                       *)

\* One element more.
WithElement(r, e, S) == IF e \in S THEN Append(r, e) ELSE r

\* The equation that defines the function in Within.
WithinBody(f, s, S) ==
  [n \in 0..Len(s) |->
     IF n = 0 THEN <<>>
     ELSE IF s[n] \in S THEN Append(f[n - 1], s[n]) ELSE f[n - 1]]

\* Element i of r is element a of s.
Source(r, i, s, a) == r[i] = s[a]

\* r is what the first n elements of s have in S, in their order.
WithinAfter(r, s, S, n) ==
  /\ r \in Seq(TaskIDs)
  /\ \A i \in 1..Len(r) : r[i] \in S /\ \E a \in 1..n : Source(r, i, s, a)
  /\ \A a \in 1..n : s[a] \in S => \E i \in 1..Len(r) : Source(r, i, s, a)
  /\ \A i, j \in 1..Len(r) : i < j =>
       \E a, b \in 1..n : a < b /\ Source(r, i, s, a) /\ Source(r, j, s, b)

\* The loop of Within has a course.
LEMMA WithinDefined ==
  ASSUME NEW s \in Seq(TaskIDs), NEW S
  PROVE  \E f : f = WithinBody(f, s, S)
<1> DEFINE N == Len(s)
           D == Seq(TaskIDs)
           base == <<>>
           step == [p \in (1..N) \X D |-> WithElement(p[2], s[p[1]], S)]
<1>1. N \in Nat /\ base \in D
  OBVIOUS
<1>2. ASSUME NEW n \in 1..N, NEW r \in D PROVE WithElement(r, s[n], S) \in D
  <2>1. s[n] \in TaskIDs
    OBVIOUS
  <2>2. QED
    BY <2>1 DEF WithElement
<1>3. \A n \in 1..N, r \in D : step[<<n, r>>] = WithElement(r, s[n], S)
  <2> HIDE DEF N, D
  <2> QED OBVIOUS
<1>4. step \in Steps(N, D)
  <2> HIDE DEF N, D
  <2> QED BY <1>2 DEF Steps
<1> HIDE DEF step, N, D
<1>5. PICK f : IsCourse(f, N, D, base, step)
  <2> HIDE DEF base
  <2> QED BY <1>1, <1>4, Course
<1>6. ASSUME NEW n \in 0..N
      PROVE  f[n] = IF n = 0 THEN <<>>
                    ELSE IF s[n] \in S THEN Append(f[n - 1], s[n]) ELSE f[n - 1]
  <2>1. n # 0 => n \in 1..N /\ n - 1 \in 0..N
    BY <1>1
  <2>2. n # 0 => f[n] = WithElement(f[n - 1], s[n], S)
    BY <1>3, <1>5, <2>1 DEF IsCourse
  <2>3. QED
    BY <1>5, <2>2 DEF WithElement, IsCourse
<1>7. f = WithinBody(f, s, S)
  BY <1>5, <1>6 DEF WithinBody, IsCourse, N
<1>8. QED
  BY <1>7

\* What one element more does.
LEMMA WithElementFacts ==
  ASSUME NEW s \in Seq(TaskIDs), NEW S, NEW n \in 1..Len(s),
         NEW r, WithinAfter(r, s, S, n - 1)
  PROVE  WithinAfter(WithElement(r, s[n], S), s, S, n)
<1> DEFINE e == s[n]
<1>1. e \in TaskIDs /\ r \in Seq(TaskIDs) /\ Len(r) \in Nat
  BY DEF WithinAfter
<1>2. 1..n = 1..(n - 1) \cup {n} /\ n \in 1..n /\ \A a \in 1..(n - 1) : a < n
  OBVIOUS
<1>3. CASE e \notin S
  <2>1. WithElement(r, s[n], S) = r
    BY <1>3 DEF WithElement
  <2>2. QED
    BY <1>2, <1>3, <2>1 DEF WithinAfter
<1>4. CASE e \in S
  <2> DEFINE new == Append(r, e)
             l == Len(r) + 1
  <2>1. /\ new \in Seq(TaskIDs) /\ Len(new) = l
        /\ \A i \in 1..Len(r) : new[i] = r[i]
        /\ new[l] = e
    BY <1>1, AppendFacts
  <2>2. 1..l = 1..Len(r) \cup {l} /\ l \in 1..l /\ ~(\E j \in 1..l : l < j)
    BY <1>1
  <2>3. WithElement(r, s[n], S) = new
    BY <1>4 DEF WithElement
  <2> HIDE DEF new, l
  <2>4. Source(new, l, s, n)
    BY <2>1 DEF Source
  <2>5. ASSUME NEW i \in 1..Len(r), NEW a PROVE Source(new, i, s, a) <=> Source(r, i, s, a)
    BY <2>1 DEF Source
  <2>6. ASSUME NEW i \in 1..l
        PROVE  new[i] \in S /\ \E a \in 1..n : Source(new, i, s, a)
    BY <1>2, <1>4, <2>1, <2>2, <2>4, <2>5 DEF WithinAfter
  <2>7. ASSUME NEW a \in 1..n, s[a] \in S PROVE \E i \in 1..l : Source(new, i, s, a)
    <3>1. CASE a = n
      BY <2>2, <2>4, <3>1
    <3>2. CASE a \in 1..(n - 1)
      BY <2>2, <2>5, <2>7, <3>2 DEF WithinAfter
    <3>3. QED
      BY <1>2, <3>1, <3>2
  <2>8. ASSUME NEW i \in 1..l, NEW j \in 1..l, i < j
        PROVE  \E a, b \in 1..n : a < b /\ Source(new, i, s, a) /\ Source(new, j, s, b)
    <3>1. i \in 1..Len(r)
      BY <2>2, <2>8
    <3>2. CASE j \in 1..Len(r)
      <4>1. PICK a \in 1..(n - 1), b \in 1..(n - 1) :
              a < b /\ Source(r, i, s, a) /\ Source(r, j, s, b)
        BY <2>8, <3>1, <3>2 DEF WithinAfter
      <4>2. QED
        BY <1>2, <2>5, <3>1, <3>2, <4>1
    <3>3. CASE j = l
      <4>1. PICK a \in 1..(n - 1) : Source(r, i, s, a)
        BY <3>1 DEF WithinAfter
      <4>2. QED
        BY <1>2, <2>4, <2>5, <3>1, <3>3, <4>1
    <3>4. QED
      BY <2>2, <3>2, <3>3
  <2>9. QED
    BY <2>1, <2>3, <2>6, <2>7, <2>8 DEF WithinAfter
<1>5. QED
  BY <1>3, <1>4

\* What Within computes, for every list.
LEMMA WithinFacts ==
  ASSUME NEW s \in Seq(TaskIDs), NEW S
  PROVE  WithinAfter(Within(s, S), s, S, Len(s))
<1> DEFINE N == Len(s)
           f == CHOOSE g : g = WithinBody(g, s, S)
           T == {n \in 0..N : WithinAfter(f[n], s, S, n)}
<1>1. N \in Nat
  OBVIOUS
<1>2. f = WithinBody(f, s, S)
  BY WithinDefined
<1>3. Within(s, S) = f[N]
  BY DEF Within, WithinBody
<1> HIDE DEF f
<1>4. 0 \in T
  <2>1. f[0] = <<>>
    BY <1>1, <1>2 DEF WithinBody
  <2>2. WithinAfter(<<>>, s, S, 0)
    BY DEF WithinAfter
  <2>3. QED
    BY <1>1, <2>1, <2>2
<1>5. ASSUME NEW n \in 1..N, n - 1 \in T PROVE n \in T
  <2>1. f[n] = WithElement(f[n - 1], s[n], S)
    <3>1. n \in 0..N /\ n # 0
      OBVIOUS
    <3>2. QED
      BY <1>2, <3>1 DEF WithinBody, WithElement
  <2>2. WithinAfter(f[n], s, S, n)
    BY <1>5, <2>1, WithElementFacts
  <2>3. QED
    BY <1>1, <2>2
<1>6. T = 0..N
  <2>1. T \in SUBSET (0..N)
    OBVIOUS
  <2> HIDE DEF T
  <2>2. QED
    BY <1>1, <1>4, <1>5, <2>1, UpTo
<1>7. N \in T
  BY <1>1, <1>6
<1>8. QED
  BY <1>3, <1>7

\* The same by sets: a part of a list without repetitions has none either,
\* and keeps the order.
LEMMA PartFacts ==
  ASSUME NEW s \in Seq(TaskIDs), IsInjective(s), NEW S
  PROVE  /\ Within(s, S) \in Seq(TaskIDs) /\ IsInjective(Within(s, S))
         /\ ToSet(Within(s, S)) = ToSet(s) \cap S
         /\ \A i, j \in 1..Len(Within(s, S)) : i < j =>
              \E a, b \in 1..Len(s) :
                a < b /\ Within(s, S)[i] = s[a] /\ Within(s, S)[j] = s[b]
<1> DEFINE r == Within(s, S)
<1>1. WithinAfter(r, s, S, Len(s))
  BY WithinFacts
<1> HIDE DEF r
<1>2. r \in Seq(TaskIDs) /\ DOMAIN r = 1..Len(r) /\ DOMAIN s = 1..Len(s) /\ Len(r) \in Nat
      /\ Len(s) \in Nat
  BY <1>1 DEF WithinAfter
<1>3. ASSUME NEW i \in 1..Len(r), NEW j \in 1..Len(r), i < j
      PROVE  \E a, b \in 1..Len(s) : a < b /\ r[i] = s[a] /\ r[j] = s[b]
  BY <1>1, <1>3 DEF WithinAfter, Source
<1>4. ASSUME NEW i \in 1..Len(r), NEW j \in 1..Len(r), i < j
      PROVE  r[i] # r[j]
  <2>1. PICK a \in 1..Len(s), b \in 1..Len(s) : a < b /\ r[i] = s[a] /\ r[j] = s[b]
    BY <1>3, <1>4
  <2>2. a # b
    BY <1>2, <2>1
  <2>3. QED
    BY <1>2, <2>1, <2>2 DEF IsInjective
<1>5. IsInjective(r)
  <2>1. ASSUME NEW i \in 1..Len(r), NEW j \in 1..Len(r), r[i] = r[j] PROVE i = j
    <3>1. i < j \/ j < i \/ i = j
      BY <1>2
    <3>2. QED
      BY <1>4, <2>1, <3>1
  <2>2. QED
    BY <1>2, <2>1 DEF IsInjective
<1>6. ToSet(r) = ToSet(s) \cap S
  <2>1. ASSUME NEW x PROVE x \in ToSet(r) => x \in ToSet(s) /\ x \in S
    <3> SUFFICES ASSUME NEW i \in 1..Len(r) PROVE r[i] \in ToSet(s) /\ r[i] \in S
      BY <1>2 DEF ToSet
    <3>1. PICK a \in 1..Len(s) : r[i] = s[a]
      BY <1>1 DEF WithinAfter, Source
    <3>2. QED
      BY <1>1, <1>2, <3>1 DEF WithinAfter, ToSet
  <2>2. ASSUME NEW x \in ToSet(s), x \in S PROVE x \in ToSet(r)
    <3>1. PICK a \in 1..Len(s) : x = s[a]
      BY <1>2 DEF ToSet
    <3>2. PICK i \in 1..Len(r) : r[i] = s[a]
      BY <1>1, <2>2, <3>1 DEF WithinAfter, Source
    <3>3. QED
      BY <1>2, <3>1, <3>2 DEF ToSet
  <2>3. QED
    BY <2>1, <2>2
<1>7. QED
  BY <1>2, <1>3, <1>5, <1>6 DEF r

\* A list without repetitions is as long as it has elements.
LEMMA InjectiveLength ==
  ASSUME NEW s \in Seq(TaskIDs), IsInjective(s)
  PROVE  IsFiniteSet(ToSet(s)) /\ Cardinality(ToSet(s)) = Len(s)
<1>1. Len(s) \in Nat /\ DOMAIN s = 1..Len(s)
  OBVIOUS
<1>2. IsFiniteSet(1..Len(s)) /\ Cardinality(1..Len(s)) = Len(s)
  BY <1>1, FS_Interval
<1>3. s \in Bijection(1..Len(s), ToSet(s))
  BY <1>1 DEF Bijection, Injection, Surjection, IsInjective, ToSet
<1>4. ExistsBijection(1..Len(s), ToSet(s))
  BY <1>3 DEF ExistsBijection
<1>5. QED
  BY <1>2, <1>4, FS_Bijection

\* A list that has the elements of two lists without common ones is as long as
\* the two together.
LEMMA LengthsAdd ==
  ASSUME NEW s \in Seq(TaskIDs), NEW t \in Seq(TaskIDs), NEW u \in Seq(TaskIDs),
         IsInjective(s), IsInjective(t), IsInjective(u),
         ToSet(u) = ToSet(s) \cup ToSet(t), ToSet(s) \cap ToSet(t) = {}
  PROVE  Len(u) = Len(s) + Len(t)
<1>1. /\ IsFiniteSet(ToSet(s)) /\ Cardinality(ToSet(s)) = Len(s)
      /\ IsFiniteSet(ToSet(t)) /\ Cardinality(ToSet(t)) = Len(t)
      /\ Cardinality(ToSet(u)) = Len(u)
  BY InjectiveLength
<1>2. Cardinality(ToSet(s) \cup ToSet(t)) =
        Cardinality(ToSet(s)) + Cardinality(ToSet(t)) - Cardinality({})
  BY <1>1, FS_Union
<1>3. Cardinality({}) = 0
  BY FS_EmptySet
<1>4. Len(s) \in Nat /\ Len(t) \in Nat
  OBVIOUS
<1>5. QED
  BY <1>1, <1>2, <1>3, <1>4

-----------------------------------------------------------------------------
(* The list after a Save.                                                  *)

\* The list new is list a without its first e elements, then k, then f.
Joined(new, a, e, k, f) ==
  /\ new \in Seq(TaskIDs) /\ Len(new) = (Len(a) - e) + Len(k) + Len(f)
  /\ \A i \in 1..(Len(a) - e) : new[i] = a[i + e]
  /\ \A i \in 1..Len(k) : new[(Len(a) - e) + i] = k[i]
  /\ \A i \in 1..Len(f) : new[(Len(a) - e) + Len(k) + i] = f[i]

\* Eviction from the front of a, and insertion at the back.
LEMMA JoinedFacts ==
  ASSUME NEW a \in Seq(TaskIDs), NEW k \in Seq(TaskIDs), NEW f \in Seq(TaskIDs),
         NEW e \in 0..Len(a)
  PROVE  /\ Joined(SubSeq(a \o k, e + 1, Len(a \o k)) \o f, a, e, k, f)
         /\ SubSeq(a \o k, 1, e) \in Seq(TaskIDs) /\ Len(SubSeq(a \o k, 1, e)) = e
         /\ \A i \in 1..e : SubSeq(a \o k, 1, e)[i] = a[i]
<1> DEFINE c == a \o k
           rest == SubSeq(c, e + 1, Len(c))
           front == SubSeq(c, 1, e)
<1>1. /\ c \in Seq(TaskIDs) /\ Len(c) = Len(a) + Len(k)
      /\ Len(a) \in Nat /\ Len(k) \in Nat /\ Len(f) \in Nat
      /\ \A i \in 1..Len(a) : c[i] = a[i]
      /\ \A i \in 1..Len(k) : c[Len(a) + i] = k[i]
  OBVIOUS
<1> HIDE DEF c
<1>2. front \in Seq(TaskIDs) /\ Len(front) = e /\ \A i \in 1..e : front[i] = c[i]
  BY <1>1
<1>3. /\ rest \in Seq(TaskIDs) /\ Len(rest) = Len(c) - e
      /\ \A i \in 1..(Len(c) - e) : rest[i] = c[i + e]
  <2>1. c \in Seq(TaskIDs) /\ Len(c) \in Nat /\ e \in Nat /\ e <= Len(c)
    BY <1>1
  <2>2. /\ rest \in Seq(TaskIDs)
        /\ Len(rest) = IF e + 1 <= Len(c) THEN Len(c) - (e + 1) + 1 ELSE 0
        /\ \A i \in 1..Len(c) - (e + 1) + 1 : rest[i] = c[(e + 1) + i - 1]
    <3>1. e + 1 \in Int /\ Len(c) \in Int /\ \A i \in (e + 1)..Len(c) : c[i] \in TaskIDs
      BY <2>1
    <3>2. QED
      BY <3>1, SubSeqProperties
  <2> HIDE DEF rest
  <2>3. Len(rest) = Len(c) - e
    BY <2>1, <2>2
  <2>4. \A i \in 1..(Len(c) - e) : rest[i] = c[i + e]
    BY <2>1, <2>2
  <2>5. QED
    BY <2>2, <2>3, <2>4
<1> HIDE DEF rest, front
<1>4. /\ rest \o f \in Seq(TaskIDs) /\ Len(rest \o f) = Len(rest) + Len(f)
      /\ \A i \in 1..Len(rest) : (rest \o f)[i] = rest[i]
      /\ \A i \in 1..Len(f) : (rest \o f)[Len(rest) + i] = f[i]
  <2>1. rest \in Seq(TaskIDs) /\ Len(rest) \in Nat
    BY <1>3
  <2>2. QED
    BY <2>1
<1>5. ASSUME NEW i \in 1..(Len(a) - e) PROVE (rest \o f)[i] = a[i + e]
  <2>1. i \in 1..(Len(c) - e) /\ i + e \in 1..Len(a) /\ i \in 1..Len(rest)
    BY <1>1, <1>3
  <2>2. QED
    BY <1>1, <1>3, <1>4, <2>1
<1>6. ASSUME NEW i \in 1..Len(k) PROVE (rest \o f)[(Len(a) - e) + i] = k[i]
  <2>1. /\ (Len(a) - e) + i \in 1..(Len(c) - e) /\ (Len(a) - e) + i \in 1..Len(rest)
        /\ ((Len(a) - e) + i) + e = Len(a) + i
    BY <1>1, <1>3
  <2>2. QED
    BY <1>1, <1>3, <1>4, <2>1
<1>7. ASSUME NEW i \in 1..Len(f) PROVE (rest \o f)[(Len(a) - e) + Len(k) + i] = f[i]
  <2>1. (Len(a) - e) + Len(k) + i = Len(rest) + i
    BY <1>1, <1>3
  <2>2. QED
    BY <1>4, <2>1
<1>8. Len(rest \o f) = (Len(a) - e) + Len(k) + Len(f)
  BY <1>1, <1>3, <1>4
<1>9. Joined(rest \o f, a, e, k, f)
  BY <1>4, <1>5, <1>6, <1>7, <1>8 DEF Joined
<1>10. ASSUME NEW i \in 1..e PROVE front[i] = a[i]
  <2>1. i \in 1..Len(a)
    BY <1>1
  <2>2. QED
    BY <1>1, <1>2, <2>1
<1>11. QED
  BY <1>2, <1>9, <1>10 DEF c, rest, front

\* Where element i of the new list is from.
Origin(i, new, a, e, k, f) ==
  \/ i \in 1..(Len(a) - e) /\ i + e \in 1..Len(a) /\ new[i] = a[i + e]
  \/ \E j \in 1..Len(k) : i = (Len(a) - e) + j /\ new[i] = k[j]
  \/ \E j \in 1..Len(f) : i = (Len(a) - e) + Len(k) + j /\ new[i] = f[j]

\* Every place of the new list is a place of one of the three.
LEMMA Places ==
  ASSUME NEW a \in Seq(TaskIDs), NEW k \in Seq(TaskIDs), NEW f \in Seq(TaskIDs),
         NEW e \in 0..Len(a), NEW new, Joined(new, a, e, k, f), NEW i \in 1..Len(new)
  PROVE  Origin(i, new, a, e, k, f)
<1> USE DEF Origin
<1>1. Len(a) \in Nat /\ Len(k) \in Nat /\ Len(f) \in Nat
  OBVIOUS
<1>2. CASE i <= Len(a) - e
  <2>1. i \in 1..(Len(a) - e) /\ i + e \in 1..Len(a)
    BY <1>1, <1>2
  <2>2. QED
    BY <2>1 DEF Joined
<1>3. CASE i > Len(a) - e /\ i <= (Len(a) - e) + Len(k)
  <2> DEFINE j == i - (Len(a) - e)
  <2>1. j \in 1..Len(k) /\ i = (Len(a) - e) + j
    BY <1>1, <1>3
  <2> HIDE DEF j
  <2>2. QED
    BY <2>1 DEF Joined
<1>4. CASE i > (Len(a) - e) + Len(k)
  <2> DEFINE j == i - ((Len(a) - e) + Len(k))
  <2>1. j \in 1..Len(f) /\ i = (Len(a) - e) + Len(k) + j
    BY <1>1, <1>4 DEF Joined
  <2> HIDE DEF j
  <2>2. QED
    BY <2>1 DEF Joined
<1>5. QED
  BY <1>1, <1>2, <1>3, <1>4 DEF Joined

\* The three parts of the new list: the old list without the keys, of which e
\* elements are evicted, the keys that it had, and the others.
PartsOK(keys, a, k, f, e) ==
  /\ a \in Seq(TaskIDs) /\ IsInjective(a)
  /\ k \in Seq(TaskIDs) /\ IsInjective(k)
  /\ f \in Seq(TaskIDs) /\ IsInjective(f)
  /\ ToSet(a) = ToSet(ll) \ ToSet(keys)
  /\ ToSet(k) = ToSet(keys) \cap ToSet(ll)
  /\ ToSet(f) = ToSet(keys) \ ToSet(ll)
  /\ \A i, j \in 1..Len(a) : i < j => lastSaved[a[i]] <= lastSaved[a[j]]
  /\ Len(a) + Len(k) = Len(ll) /\ Len(k) + Len(f) = Len(keys)
  /\ e \in 0..Len(a)
  /\ e = IF Len(ll) + Len(f) > MaxTasks THEN Len(ll) + Len(f) - MaxTasks ELSE 0

\* Save splits the list so, and eviction never reaches the keys it updates,
\* for they are no more than the store can hold.
LEMMA Parts ==
  ASSUME StoreInv, NEW keys \in Seq(TaskIDs), IsInjective(keys), Len(keys) <= MaxTasks
  PROVE  PartsOK(keys, Within(ll, TaskIDs \ ToSet(keys)), Within(keys, DOMAIN tasks),
                 FreshKeys(keys), Evictions(Len(FreshKeys(keys))))
<1> DEFINE a == Within(ll, TaskIDs \ ToSet(keys))
           k == Within(keys, DOMAIN tasks)
           f == FreshKeys(keys)
           e == Evictions(Len(f))
<1>1. /\ ll \in Seq(TaskIDs) /\ IsInjective(ll) /\ DOMAIN tasks = ToSet(ll)
      /\ Len(ll) <= MaxTasks /\ OldestFirst /\ MaxTasks \in Nat
  BY CapacityAssumption DEF StoreInv, StoreConsistent
<1>2. /\ a \in Seq(TaskIDs) /\ IsInjective(a)
      /\ ToSet(a) = ToSet(ll) \cap (TaskIDs \ ToSet(keys))
      /\ \A i, j \in 1..Len(a) : i < j =>
           \E b, c \in 1..Len(ll) : b < c /\ a[i] = ll[b] /\ a[j] = ll[c]
  BY <1>1, PartFacts
<1>3. /\ k \in Seq(TaskIDs) /\ IsInjective(k)
      /\ ToSet(k) = ToSet(keys) \cap DOMAIN tasks
  BY PartFacts
<1>4. /\ f \in Seq(TaskIDs) /\ IsInjective(f)
      /\ ToSet(f) = ToSet(keys) \cap (TaskIDs \ DOMAIN tasks)
  BY PartFacts DEF FreshKeys
<1> HIDE DEF a, k, f
<1>5. ToSet(ll) \subseteq TaskIDs /\ ToSet(keys) \subseteq TaskIDs
  <2>1. DOMAIN ll = 1..Len(ll) /\ DOMAIN keys = 1..Len(keys)
    BY <1>1
  <2>2. QED
    BY <1>1, <2>1 DEF ToSet
<1>6. /\ ToSet(a) = ToSet(ll) \ ToSet(keys)
      /\ ToSet(k) = ToSet(keys) \cap ToSet(ll)
      /\ ToSet(f) = ToSet(keys) \ ToSet(ll)
  BY <1>1, <1>2, <1>3, <1>4, <1>5
<1>7. Len(ll) = Len(a) + Len(k)
  BY <1>1, <1>2, <1>3, <1>6, LengthsAdd
<1>8. Len(keys) = Len(k) + Len(f)
  BY <1>3, <1>4, <1>6, LengthsAdd
<1>9. ASSUME NEW i \in 1..Len(a), NEW j \in 1..Len(a), i < j
      PROVE  lastSaved[a[i]] <= lastSaved[a[j]]
  <2>1. PICK b \in 1..Len(ll), c \in 1..Len(ll) : b < c /\ a[i] = ll[b] /\ a[j] = ll[c]
    BY <1>2, <1>9
  <2>2. lastSaved[ll[b]] <= lastSaved[ll[c]]
    BY <1>1, <2>1 DEF OldestFirst
  <2>3. QED
    BY <2>1, <2>2
<1>10. Cardinality(DOMAIN tasks) = Len(ll)
  BY <1>1, InjectiveLength
<1>11. e = IF Len(ll) + Len(f) > MaxTasks THEN Len(ll) + Len(f) - MaxTasks ELSE 0
  <2>1. Len(ll) \in Nat /\ Len(f) \in Nat
    BY <1>1, <1>4
  <2>2. e = IF Len(ll) + Len(f) - MaxTasks > 0 THEN Len(ll) + Len(f) - MaxTasks ELSE 0
    BY <1>10 DEF Evictions
  <2>3. MaxTasks \in Nat
    BY <1>1
  <2> HIDE DEF e
  <2>4. QED
    BY <2>1, <2>2, <2>3
<1>12. e \in 0..Len(a)
  <2>1. Len(a) \in Nat /\ Len(k) \in Nat /\ Len(f) \in Nat
    BY <1>2, <1>3, <1>4
  <2> HIDE DEF e
  <2>2. QED
    BY <1>1, <1>7, <1>8, <1>11, <2>1
<1>13. QED
  BY <1>2, <1>3, <1>4, <1>6, <1>7, <1>8, <1>9, <1>11, <1>12
     DEF PartsOK, a, k, f

\* What Save does to list and map, told by the parts.
LEMMA StoreUnfolds ==
  ASSUME StoreInv, NEW keys \in Seq(TaskIDs), IsInjective(keys), Len(keys) <= MaxTasks,
         NEW resp, Store(keys, resp)
  PROVE  \E a, k, f, e :
           /\ PartsOK(keys, a, k, f, e) /\ Joined(ll', a, e, k, f)
           /\ DOMAIN tasks' = (ToSet(ll) \ {a[i] : i \in 1..e}) \cup ToSet(f)
           /\ \A id \in DOMAIN tasks' : Contains(keys, id) => tasks'[id] = resp
<1> DEFINE a == Within(ll, TaskIDs \ ToSet(keys))
           k == Within(keys, DOMAIN tasks)
           f == FreshKeys(keys)
           e == Evictions(Len(f))
           list == a \o k
           n == Min({e, Len(list)})
           front == SubSeq(list, 1, n)
<1>1. PartsOK(keys, a, k, f, e)
  BY Parts
<1>2. DOMAIN tasks = ToSet(ll)
  BY DEF StoreInv, StoreConsistent
<1>3. /\ ll' = SubSeq(list, Len(front) + 1, Len(list)) \o f
      /\ tasks' = [id \in (DOMAIN tasks \ ToSet(front)) \cup ToSet(f) |->
                     IF Contains(keys, id) THEN resp ELSE tasks[id]]
  BY DEF Store, Refreshed
<1> HIDE DEF a, k, f, e
<1>4. a \in Seq(TaskIDs) /\ k \in Seq(TaskIDs) /\ f \in Seq(TaskIDs) /\ e \in 0..Len(a)
  BY <1>1 DEF PartsOK
<1>5. e <= Len(list) /\ Len(list) \in Nat /\ e \in Nat
  BY <1>4
<1> HIDE DEF list
<1>6. n = e
  <2>1. e \in {e, Len(list)} /\ \A y \in {e, Len(list)} : e <= y
    BY <1>5
  <2>2. n \in {e, Len(list)} /\ \A y \in {e, Len(list)} : n <= y
    BY <2>1 DEF Min
  <2> HIDE DEF n
  <2>3. QED
    BY <1>5, <2>2
<1> HIDE DEF n
<1>7. /\ Joined(SubSeq(list, e + 1, Len(list)) \o f, a, e, k, f)
      /\ front \in Seq(TaskIDs) /\ Len(front) = e
      /\ \A i \in 1..e : front[i] = a[i]
  BY <1>4, <1>6, JoinedFacts DEF list
<1> HIDE DEF front
<1>8. Joined(ll', a, e, k, f)
  BY <1>3, <1>7
<1>9. ToSet(front) = {a[i] : i \in 1..e}
  <2>1. DOMAIN front = 1..e
    BY <1>7
  <2>2. QED
    BY <1>7, <2>1 DEF ToSet
<1>10. DOMAIN tasks' = (ToSet(ll) \ {a[i] : i \in 1..e}) \cup ToSet(f)
  BY <1>2, <1>3, <1>9
<1>11. \A id \in DOMAIN tasks' : Contains(keys, id) => tasks'[id] = resp
  BY <1>3
<1>12. QED
  BY <1>1, <1>8, <1>10, <1>11

\* The elements of the new list, and that none is in it twice.
LEMMA JoinedElements ==
  ASSUME NEW keys, NEW a, NEW k, NEW f, NEW e, PartsOK(keys, a, k, f, e),
         NEW new, Joined(new, a, e, k, f)
  PROVE  /\ IsInjective(new)
         /\ ToSet(new) = (ToSet(ll) \ {a[i] : i \in 1..e}) \cup ToSet(f)
         /\ ToSet(keys) \subseteq ToSet(new)
         /\ \A id \in ToSet(new) : id \in ToSet(keys) \/ \E i \in (e + 1)..Len(a) : id = a[i]
<1>1. /\ a \in Seq(TaskIDs) /\ k \in Seq(TaskIDs) /\ f \in Seq(TaskIDs)
      /\ e \in 0..Len(a) /\ Len(a) \in Nat /\ Len(k) \in Nat /\ Len(f) \in Nat
      /\ DOMAIN a = 1..Len(a) /\ DOMAIN k = 1..Len(k) /\ DOMAIN f = 1..Len(f)
  BY DEF PartsOK
<1>2. new \in Seq(TaskIDs) /\ DOMAIN new = 1..Len(new) /\ Len(new) \in Nat
  BY DEF Joined
<1>3. \A i \in 1..Len(a) : a[i] \in ToSet(a)
  BY <1>1 DEF ToSet
<1>4. \A i \in 1..Len(k) : k[i] \in ToSet(k)
  BY <1>1 DEF ToSet
<1>5. \A i \in 1..Len(f) : f[i] \in ToSet(f)
  BY <1>1 DEF ToSet
<1>6. /\ ToSet(a) = ToSet(ll) \ ToSet(keys)
      /\ ToSet(k) = ToSet(keys) \cap ToSet(ll)
      /\ ToSet(f) = ToSet(keys) \ ToSet(ll)
  BY DEF PartsOK
<1>7. /\ \A i, j \in 1..Len(a) : a[i] = a[j] => i = j
      /\ \A i, j \in 1..Len(k) : k[i] = k[j] => i = j
      /\ \A i, j \in 1..Len(f) : f[i] = f[j] => i = j
  BY <1>1 DEF PartsOK, IsInjective
<1> DEFINE OfA(i) == i \in 1..(Len(a) - e) /\ i + e \in 1..Len(a) /\ new[i] = a[i + e]
           OfK(i) == \E j \in 1..Len(k) : i = (Len(a) - e) + j /\ new[i] = k[j]
           OfF(i) == \E j \in 1..Len(f) : i = (Len(a) - e) + Len(k) + j /\ new[i] = f[j]
<1>8. ASSUME NEW i \in 1..Len(new) PROVE OfA(i) \/ OfK(i) \/ OfF(i)
  <2>1. Origin(i, new, a, e, k, f)
    BY <1>1, Places
  <2>2. QED
    BY <2>1 DEF Origin
<1>9. ASSUME NEW i \in 1..Len(new)
      PROVE  /\ OfA(i) => new[i] \in ToSet(a)
             /\ OfK(i) => new[i] \in ToSet(k)
             /\ OfF(i) => new[i] \in ToSet(f)
  BY <1>3, <1>4, <1>5
<1>10. ASSUME NEW i \in 1..Len(new), NEW j \in 1..Len(new), new[i] = new[j]
       PROVE  i = j
  <2>1. CASE OfA(i) /\ OfA(j)
    <3>1. i + e = j + e
      BY <1>7, <1>10, <2>1
    <3>2. QED
      BY <1>1, <1>2, <3>1
  <2>2. CASE OfK(i) /\ OfK(j)
    BY <1>7, <1>10, <2>2
  <2>3. CASE OfF(i) /\ OfF(j)
    BY <1>7, <1>10, <2>3
  <2> HIDE DEF OfA, OfK, OfF
  <2>4. QED
    BY <1>6, <1>8, <1>9, <1>10, <2>1, <2>2, <2>3
<1>11. IsInjective(new)
  BY <1>2, <1>10 DEF IsInjective
<1>12. ASSUME NEW id \in ToSet(new)
       PROVE  id \in ToSet(keys) \/ \E i \in (e + 1)..Len(a) : id = a[i]
  <2>1. PICK i \in 1..Len(new) : id = new[i]
    BY <1>2 DEF ToSet
  <2>2. CASE OfA(i)
    <3>1. i + e \in (e + 1)..Len(a)
      BY <1>1, <2>2
    <3>2. QED
      BY <2>1, <2>2, <3>1
  <2> HIDE DEF OfA, OfK, OfF
  <2>3. QED
    BY <1>6, <1>8, <1>9, <2>1, <2>2
<1>13. ASSUME NEW i \in 1..Len(k) PROVE k[i] \in ToSet(new)
  <2>1. (Len(a) - e) + i \in 1..Len(new)
    BY <1>1 DEF Joined
  <2>2. QED
    BY <1>2, <2>1 DEF Joined, ToSet
<1>14. ASSUME NEW i \in 1..Len(f) PROVE f[i] \in ToSet(new)
  <2>1. (Len(a) - e) + Len(k) + i \in 1..Len(new)
    BY <1>1 DEF Joined
  <2>2. QED
    BY <1>2, <2>1 DEF Joined, ToSet
<1>15. ToSet(k) \subseteq ToSet(new) /\ ToSet(f) \subseteq ToSet(new)
  <2>1. ToSet(k) = {k[i] : i \in 1..Len(k)} /\ ToSet(f) = {f[i] : i \in 1..Len(f)}
    BY <1>1 DEF ToSet
  <2>2. QED
    BY <1>13, <1>14, <2>1
<1>16. ASSUME NEW i \in (e + 1)..Len(a) PROVE a[i] \in ToSet(new)
  <2>1. i - e \in 1..(Len(a) - e) /\ (i - e) + e = i /\ i - e \in 1..Len(new)
    BY <1>1 DEF Joined
  <2>2. QED
    BY <1>2, <2>1 DEF Joined, ToSet
<1>17. ToSet(keys) \subseteq ToSet(new)
  BY <1>6, <1>15
<1>18. ASSUME NEW id \in ToSet(new)
       PROVE  id \in (ToSet(ll) \ {a[i] : i \in 1..e}) \cup ToSet(f)
  <2>1. CASE id \in ToSet(keys)
    BY <1>1, <1>3, <1>6, <2>1
  <2>2. CASE \E i \in (e + 1)..Len(a) : id = a[i]
    <3>1. PICK i \in (e + 1)..Len(a) : id = a[i]
      BY <2>2
    <3>2. i \in 1..Len(a) /\ \A j \in 1..e : j \in 1..Len(a) /\ j # i
      BY <1>1
    <3>3. QED
      BY <1>3, <1>6, <1>7, <3>1, <3>2
  <2>3. QED
    BY <1>12, <2>1, <2>2
<1>19. ASSUME NEW id \in (ToSet(ll) \ {a[i] : i \in 1..e}) \cup ToSet(f)
       PROVE  id \in ToSet(new)
  <2>1. CASE id \in ToSet(keys)
    BY <1>17, <2>1
  <2>2. CASE id \notin ToSet(keys)
    <3>1. id \in ToSet(a) /\ id \notin {a[i] : i \in 1..e}
      BY <1>6, <1>19, <2>2
    <3>2. PICK i \in 1..Len(a) : id = a[i]
      BY <1>1, <3>1 DEF ToSet
    <3>3. i \in (e + 1)..Len(a)
      BY <1>1, <3>1, <3>2
    <3>4. QED
      BY <1>16, <3>2, <3>3
  <2>3. QED
    BY <2>1, <2>2
<1>20. QED
  BY <1>11, <1>12, <1>17, <1>18, <1>19

-----------------------------------------------------------------------------
(* The steps.                                                              *)

\* A Save keeps the invariant.
LEMMA StoreKeeps ==
  ASSUME StoreInv, NEW keys \in Seq(TaskIDs), IsInjective(keys), Len(keys) <= MaxTasks,
         NEW resp, Store(keys, resp)
  PROVE  StoreInv'
<1>1. PICK a, k, f, e :
        /\ PartsOK(keys, a, k, f, e) /\ Joined(ll', a, e, k, f)
        /\ DOMAIN tasks' = (ToSet(ll) \ {a[i] : i \in 1..e}) \cup ToSet(f)
        /\ \A id \in DOMAIN tasks' : Contains(keys, id) => tasks'[id] = resp
  BY StoreUnfolds
<1>2. /\ IsInjective(ll')
      /\ ToSet(ll') = (ToSet(ll) \ {a[i] : i \in 1..e}) \cup ToSet(f)
      /\ ToSet(keys) \subseteq ToSet(ll')
      /\ \A id \in ToSet(ll') : id \in ToSet(keys) \/ \E i \in (e + 1)..Len(a) : id = a[i]
  BY <1>1, JoinedElements
<1>3. /\ a \in Seq(TaskIDs) /\ k \in Seq(TaskIDs) /\ f \in Seq(TaskIDs)
      /\ e \in 0..Len(a) /\ Len(a) \in Nat /\ Len(k) \in Nat /\ Len(f) \in Nat
      /\ e \in Nat /\ DOMAIN a = 1..Len(a) /\ MaxTasks \in Nat
  BY <1>1, CapacityAssumption DEF PartsOK
<1>4. /\ ll \in Seq(TaskIDs) /\ Len(ll) \in Nat /\ saves \in Nat
      /\ lastSaved \in [TaskIDs -> Nat] /\ \A id \in TaskIDs : lastSaved[id] <= saves
      /\ Len(ll) <= MaxTasks
  BY DEF StoreInv, StoreConsistent
<1>5. saves' = saves + 1 /\ saves' \in Nat
  BY <1>4 DEF Store
<1>6. ASSUME NEW id \in TaskIDs
      PROVE  lastSaved'[id] = IF id \in ToSet(keys) THEN saves + 1 ELSE lastSaved[id]
  <2>1. Contains(keys, id) <=> id \in ToSet(keys)
    <3>1. DOMAIN keys = 1..Len(keys)
      OBVIOUS
    <3>2. QED
      BY <3>1 DEF Contains, ToSet
  <2>2. QED
    BY <2>1 DEF Store
<1>7. /\ lastSaved' \in [TaskIDs -> Nat]
      /\ \A id \in TaskIDs : lastSaved'[id] <= saves'
  <2>1. \A id \in TaskIDs : lastSaved'[id] \in Nat /\ lastSaved'[id] <= saves'
    BY <1>4, <1>5, <1>6
  <2>2. lastSaved' = [id \in TaskIDs |-> lastSaved'[id]]
    BY DEF Store
  <2>3. QED
    BY <2>1, <2>2
<1>8. ll' \in Seq(TaskIDs) /\ Len(ll') = (Len(ll) + Len(f)) - e
  <2>1. ll' \in Seq(TaskIDs) /\ Len(ll') = (Len(a) - e) + Len(k) + Len(f)
    BY <1>1 DEF Joined
  <2>2. Len(a) + Len(k) = Len(ll)
    BY <1>1 DEF PartsOK
  <2>3. (Len(a) - e) + Len(k) + Len(f) = (Len(ll) + Len(f)) - e
    <3>1. Len(a) \in Nat /\ Len(k) \in Nat /\ Len(f) \in Nat /\ e \in Nat
      BY <1>3
    <3>2. QED
      BY <2>2, <3>1
  <2>4. QED
    BY <2>1, <2>3
<1>9. e = IF Len(ll) + Len(f) > MaxTasks THEN Len(ll) + Len(f) - MaxTasks ELSE 0
  BY <1>1 DEF PartsOK
<1>10. ToSet(ll') \subseteq TaskIDs /\ DOMAIN ll' = 1..Len(ll')
  <2>1. DOMAIN ll' = 1..Len(ll')
    BY <1>8
  <2>2. QED
    BY <1>8, <2>1 DEF ToSet
<1>11. StoreConsistent'
  <2>1. Len(ll') <= MaxTasks
    BY <1>3, <1>4, <1>8, <1>9
  <2>2. DOMAIN tasks' = ToSet(ll')
    BY <1>1, <1>2
  <2>3. QED
    BY <1>2, <1>10, <2>1, <2>2 DEF StoreConsistent
<1>12. \A i \in 1..Len(a) : a[i] \in TaskIDs /\ a[i] \in ToSet(ll) /\ a[i] \notin ToSet(keys)
  <2>1. \A i \in 1..Len(a) : a[i] \in TaskIDs /\ a[i] \in ToSet(a)
    BY <1>3 DEF ToSet
  <2>2. QED
    BY <1>1, <2>1 DEF PartsOK
<1>13. \A i \in 1..Len(a) : lastSaved'[a[i]] = lastSaved[a[i]] /\ lastSaved[a[i]] <= saves
  BY <1>4, <1>6, <1>12
<1>14. \A i, j \in 1..Len(a) : i < j => lastSaved[a[i]] <= lastSaved[a[j]]
  BY <1>1 DEF PartsOK
<1>15. OldestFirst'
  <2> SUFFICES ASSUME NEW i \in 1..Len(ll'), NEW j \in 1..Len(ll'), i < j
               PROVE  lastSaved'[ll'[i]] <= lastSaved'[ll'[j]]
    BY DEF OldestFirst
  <2>1. ll'[i] \in TaskIDs /\ ll'[j] \in TaskIDs
    BY <1>8
  <2>2. CASE ll'[j] \in ToSet(keys)
    <3>1. lastSaved'[ll'[j]] = saves'
      BY <1>5, <1>6, <2>1, <2>2
    <3>2. QED
      BY <1>7, <2>1, <3>1
  <2>3. CASE ll'[j] \notin ToSet(keys)
    <3>1. j \in 1..(Len(a) - e) /\ j + e \in 1..Len(a) /\ ll'[j] = a[j + e]
      <4>1. \A m \in 1..Len(k) : k[m] \in ToSet(keys)
        <5>1. \A m \in 1..Len(k) : k[m] \in ToSet(k)
          BY <1>3 DEF ToSet
        <5>2. QED
          BY <1>1, <5>1 DEF PartsOK
      <4>2. \A m \in 1..Len(f) : f[m] \in ToSet(keys)
        <5>1. \A m \in 1..Len(f) : f[m] \in ToSet(f)
          BY <1>3 DEF ToSet
        <5>2. QED
          BY <1>1, <5>1 DEF PartsOK
      <4>3. Origin(j, ll', a, e, k, f)
        <5>1. Joined(ll', a, e, k, f)
          BY <1>1
        <5>2. a \in Seq(TaskIDs) /\ k \in Seq(TaskIDs) /\ f \in Seq(TaskIDs) /\ e \in 0..Len(a)
          BY <1>3
        <5>3. QED
          BY <5>1, <5>2, Places
      <4>4. QED
        BY <2>3, <4>1, <4>2, <4>3 DEF Origin
    <3>2. i \in 1..(Len(a) - e) /\ i + e \in 1..Len(a) /\ i + e < j + e
      BY <1>3, <1>8, <3>1
    <3>3. ll'[i] = a[i + e]
      BY <1>1, <3>2 DEF Joined
    <3>4. lastSaved[a[i + e]] <= lastSaved[a[j + e]]
      BY <1>14, <3>1, <3>2
    <3>5. QED
      BY <1>13, <3>1, <3>2, <3>3, <3>4
  <2>4. QED
    BY <2>2, <2>3
<1>16. EvictsOldestFirst'
  <2> SUFFICES ASSUME NEW gone \in TaskIDs, lastSaved'[gone] > 0, gone \notin ToSet(ll')
               PROVE  /\ \A id \in ToSet(ll') : lastSaved'[gone] <= lastSaved'[id]
                      /\ Len(ll') = MaxTasks
    BY DEF EvictsOldestFirst
  <2>1. gone \notin ToSet(keys) /\ lastSaved'[gone] = lastSaved[gone]
        /\ lastSaved[gone] <= saves /\ lastSaved[gone] \in Nat
    BY <1>2, <1>4, <1>6
  <2>2. \A id \in ToSet(keys) : lastSaved'[id] = saves + 1
    BY <1>2, <1>6, <1>10
  <2>3. CASE gone \in ToSet(ll)
    <3>1. PICK g \in 1..e : gone = a[g]
      BY <1>2, <2>3
    <3>2. e > 0 /\ g \in 1..Len(a)
      BY <1>3, <3>1
    <3>3. Len(ll') = MaxTasks
      BY <1>3, <1>4, <1>8, <1>9, <3>2
    <3>4. ASSUME NEW id \in ToSet(ll') PROVE lastSaved'[gone] <= lastSaved'[id]
      <4>1. CASE id \in ToSet(keys)
        BY <1>4, <2>1, <2>2, <4>1
      <4>2. ASSUME NEW i \in (e + 1)..Len(a), id = a[i]
            PROVE  lastSaved'[gone] <= lastSaved'[id]
        <5>1. i \in 1..Len(a) /\ g < i
          BY <1>3, <3>1
        <5>2. lastSaved[a[g]] <= lastSaved[a[i]]
          BY <1>14, <3>2, <5>1
        <5>3. QED
          BY <1>13, <2>1, <3>1, <4>2, <5>1, <5>2
      <4>3. QED
        BY <1>2, <4>1, <4>2
    <3>5. QED
      BY <3>3, <3>4
  <2>4. CASE gone \notin ToSet(ll)
    <3>1. /\ \A id \in ToSet(ll) : lastSaved[gone] <= lastSaved[id]
          /\ Len(ll) = MaxTasks
      BY <2>1, <2>4 DEF StoreInv, EvictsOldestFirst
    <3>2. Len(ll') = MaxTasks
      BY <1>3, <1>4, <1>8, <1>9, <3>1
    <3>3. ASSUME NEW id \in ToSet(ll') PROVE lastSaved'[gone] <= lastSaved'[id]
      <4>1. CASE id \in ToSet(keys)
        BY <1>4, <2>1, <2>2, <4>1
      <4>2. ASSUME NEW i \in (e + 1)..Len(a), id = a[i]
            PROVE  lastSaved'[gone] <= lastSaved'[id]
        <5>1. i \in 1..Len(a)
          BY <1>3
        <5>2. QED
          BY <1>12, <1>13, <2>1, <3>1, <4>2, <5>1
      <4>3. QED
        BY <1>2, <4>1, <4>2
    <3>4. QED
      BY <3>2, <3>3
  <2>5. QED
    BY <2>3, <2>4
<1>17. QED
  BY <1>5, <1>7, <1>8, <1>11, <1>15, <1>16 DEF StoreInv

\* The keys of a Save that Next takes.
LEMMA SavedKeys ==
  ASSUME NEW canonical \in TaskIDs, NEW aliases \in AliasLists
  PROVE  /\ UniqueKeys(canonical, aliases) \in Seq(TaskIDs)
         /\ IsInjective(UniqueKeys(canonical, aliases))
<1>1. aliases \in Seq(TaskIDs \cup {NoID})
  <2>1. PICK m \in 0..MaxAliases : aliases \in [1..m -> TaskIDs \cup {NoID}]
    BY DEF AliasLists, BoundedSeq, SeqOf
  <2>2. m \in Nat
    BY AliasesAssumption
  <2>3. QED
    BY <2>1, <2>2
<1> DEFINE keys == UniqueKeys(canonical, aliases)
<1>2. KeysAfter(keys, canonical, aliases, Len(aliases))
  BY <1>1, UniqueKeysFacts
<1> HIDE DEF keys
<1>3. keys \in Seq(TaskIDs) /\ \A i, j \in 1..Len(keys) : keys[i] = keys[j] => i = j
  BY <1>2 DEF KeysAfter
<1>4. DOMAIN keys = 1..Len(keys)
  BY <1>3
<1>5. QED
  BY <1>3, <1>4 DEF IsInjective, keys

\* A fresh store satisfies the invariant.
LEMMA InitHolds == Init => StoreInv
<1> SUFFICES ASSUME Init PROVE StoreInv
  OBVIOUS
<1>1. ll = <<>> /\ tasks = <<>> /\ saves = 0 /\ lastSaved = [id \in TaskIDs |-> 0]
  BY DEF Init
<1>2. ll \in Seq(TaskIDs) /\ Len(ll) = 0 /\ DOMAIN ll = {} /\ DOMAIN tasks = {}
  BY <1>1
<1>3. ToSet(ll) = {}
  BY <1>2 DEF ToSet
<1>4. StoreConsistent
  BY <1>2, <1>3, CapacityAssumption DEF StoreConsistent, IsInjective
<1>5. OldestFirst
  BY <1>2 DEF OldestFirst
<1>6. EvictsOldestFirst
  BY <1>1 DEF EvictsOldestFirst
<1>7. lastSaved \in [TaskIDs -> Nat] /\ \A id \in TaskIDs : lastSaved[id] <= saves
  BY <1>1
<1>8. QED
  BY <1>1, <1>2, <1>4, <1>5, <1>6, <1>7 DEF StoreInv

\* Every step keeps the invariant.
LEMMA NextKeeps ==
  ASSUME StoreInv, [Next]_vars
  PROVE  StoreInv'
<1>1. CASE UNCHANGED vars
  BY <1>1 DEF vars, StoreInv, StoreConsistent, OldestFirst, EvictsOldestFirst
<1>2. ASSUME NEW canonical \in TaskIDs, NEW aliases \in AliasLists,
             SaveRejected(canonical, aliases)
      PROVE  StoreInv'
  BY <1>1, <1>2 DEF SaveRejected
<1>3. ASSUME NEW canonical \in TaskIDs, NEW aliases \in AliasLists,
             NEW resp \in TaskResponses, Save(canonical, resp, aliases)
      PROVE  StoreInv'
  BY <1>3, SavedKeys, StoreKeeps DEF Save
<1>4. QED
  BY <1>1, <1>2, <1>3 DEF Next

-----------------------------------------------------------------------------
(* Theorems.                                                               *)

\* The inductive invariant of the store: list and map agree, and the list is in
\* the order of the Saves.
THEOREM StoreInvariance == Spec => []StoreInv
<1>1. StoreInv /\ [Next]_vars => StoreInv'
  BY NextKeeps
<1>2. QED
  BY <1>1, InitHolds, PTL DEF Spec

\* MemoryTaskStore.Save: list and map name the same IDs, each once, and never
\* more than maxTasks, for any capacity and any number of aliases.
THEOREM ListAndMapAgree == Spec => []StoreConsistent
<1>1. StoreInv => StoreConsistent
  BY DEF StoreInv
<1>2. QED
  BY <1>1, StoreInvariance, PTL

\* The eviction loop of Save drops the IDs that were saved longest ago, and
\* only when the store is full, also when the Save updates some of its IDs.
THEOREM EvictionIsFIFO == Spec => []EvictsOldestFirst
<1>1. StoreInv => EvictsOldestFirst
  BY DEF StoreInv
<1>2. QED
  BY <1>1, StoreInvariance, PTL

\* After a Save all its IDs can be loaded and have the same response: the
\* eviction that makes room for some of them never takes another.
THEOREM SavesAreAtomic == Spec => SaveIsAtomic
<1> DEFINE Batch == {id \in TaskIDs : lastSaved'[id] = saves'}
           Atomic == saves' # saves =>
                       /\ Batch \subseteq DOMAIN tasks'
                       /\ \A x, y \in Batch : tasks'[x] = tasks'[y]
<1>1. StoreInv /\ [Next]_vars => [Atomic]_vars
  <2> SUFFICES ASSUME StoreInv, Next, saves' # saves
               PROVE  /\ Batch \subseteq DOMAIN tasks'
                      /\ \A x, y \in Batch : tasks'[x] = tasks'[y]
    OBVIOUS
  <2>1. PICK canonical \in TaskIDs, aliases \in AliasLists, resp \in TaskResponses :
          Save(canonical, resp, aliases)
    BY DEF Next, SaveRejected, vars
  <2> DEFINE keys == UniqueKeys(canonical, aliases)
  <2>2. /\ keys \in Seq(TaskIDs) /\ IsInjective(keys) /\ Len(keys) <= MaxTasks
        /\ Store(keys, resp)
    BY <2>1, SavedKeys DEF Save
  <2> HIDE DEF keys
  <2>3. PICK a, k, f, e :
          /\ PartsOK(keys, a, k, f, e) /\ Joined(ll', a, e, k, f)
          /\ DOMAIN tasks' = (ToSet(ll) \ {a[i] : i \in 1..e}) \cup ToSet(f)
          /\ \A id \in DOMAIN tasks' : Contains(keys, id) => tasks'[id] = resp
    BY <2>2, StoreUnfolds
  <2>4. ToSet(keys) \subseteq DOMAIN tasks'
    BY <2>3, JoinedElements
  <2>5. ASSUME NEW id \in Batch PROVE id \in ToSet(keys) /\ Contains(keys, id)
    <3>1. id \in TaskIDs /\ lastSaved'[id] = saves + 1
      BY <2>2 DEF Store
    <3>2. lastSaved[id] # saves + 1
      BY <3>1 DEF StoreInv
    <3>3. Contains(keys, id)
      BY <2>2, <3>1, <3>2 DEF Store
    <3>4. DOMAIN keys = 1..Len(keys)
      BY <2>2
    <3>5. QED
      BY <3>3, <3>4 DEF Contains, ToSet
  <2>6. QED
    BY <2>3, <2>4, <2>5
<1>2. QED
  BY <1>1, StoreInvariance, PTL DEF Spec, SaveIsAtomic
=============================================================================
