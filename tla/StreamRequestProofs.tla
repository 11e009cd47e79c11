------------------------- MODULE StreamRequestProofs -------------------------
(***************************************************************************)
(* Proofs about a streamed request, for any configuration, any agent types *)
(* and bodies of any length: what the client reads is one well-formed      *)
(* stream, it is concluded, and it is the agent's output.  The steps are   *)
(* steps of Dispatcher or leave its variables alone, so that DispatchInv   *)
(* holds; StreamInv ties the places of TranslateStream to it.  Whether the *)
(* client reads, and what the agent sends beyond MaxLines, it leaves open. *)
(***************************************************************************)
EXTENDS StreamRequest, DispatcherProofs

-----------------------------------------------------------------------------
(* The inductive invariant.                                                *)

Event == [type : {"task_started", "delta", "step"} \cup Terminal, line : Nat]

StreamTypeOK ==
  /\ types \in [AgentIDs -> Adapters]
  /\ source \in AgentIDs \cup {NONE}
  /\ place \in {"none", "opened", "lines", "ended", "failed", "succeeded", "returned"}
  /\ script \in Seq(Lines)
  /\ currentEvent \in EventLines \cup {NONE} /\ broken \in BOOLEAN
  /\ errorEmitted \in BOOLEAN /\ wire \in Seq(Event) /\ gone \in BOOLEAN
  /\ handler \in {"dispatching", "ended"}

\* Where TranslateStream is and what that tells of the dispatcher.
PlaceOK ==
  /\ mode = "stream"
  /\ place \in {"opened", "lines", "ended", "failed", "succeeded"} <=> pc = "read"
  /\ hasEmitted <=> place \notin {"none", "opened"}
  /\ handler = "ended" => pc = "done"
  /\ place \in {"none", "opened"} => script = <<>> /\ result.code # "ok"
  /\ place \in {"none", "opened"} /\ handler = "dispatching" => wire = <<>>
  /\ place \notin {"failed", "returned"} /\ handler = "dispatching" => ~errorEmitted

\* Events that may follow each other.
WellFormed(w) ==
  \A i \in 1..Len(w) :
    /\ w[i].type = "task_started" => i = 1
    /\ w[i].type \in Carries => i > 1 /\ w[1].type = "task_started"
    /\ w[i].type \in Terminal => i = Len(w)

\* A stream that goes on, one that ends with an event of the given type, and
\* one that an error cut off, told or not.
Open(w) == \A i \in 1..Len(w) : w[i].type \notin Terminal
Started(w) == Len(w) >= 1 /\ w[1].type = "task_started"
EndsWith(w, type) == Len(w) >= 1 /\ w[Len(w)].type = type
CutOff(w, told) == IF told THEN EndsWith(w, "task_error") ELSE Open(w)

\* What a client that is there has got.
WireOK ==
  /\ WellFormed(wire)
  /\ ~gone /\ handler = "dispatching" =>
       /\ place \in {"lines", "ended"} => Started(wire) /\ Open(wire)
       /\ place = "succeeded" => EndsWith(wire, "task_completed")
       /\ place = "failed" => CutOff(wire, errorEmitted)
       /\ place = "returned" =>
            IF result.code = "ok" THEN EndsWith(wire, "task_completed")
            ELSE CutOff(wire, errorEmitted)
  /\ ~gone /\ handler = "ended" =>
       IF result.code = "ok" THEN EndsWith(wire, "task_completed")
       ELSE EndsWith(wire, "task_error")

\* EventAt and Meaning for any lines.
EventIn(sc, i) ==
  LET before == {j \in 1..(i - 1) :
                   /\ sc[j] \in EventLines
                   /\ \A k \in j..(i - 1) : sc[k] \in EventLines => k = j
                   /\ \A k \in j..(i - 1) : sc[k] # "empty"}
  IN  IF before = {} THEN NONE ELSE sc[CHOOSE j \in before : TRUE]
MeaningIn(t, sc, i) == Verdict(t, EventIn(sc, i), sc[i])

\* Line k is relayed by event i.
Relays(w, i, k) == w[i].type \in Carries /\ w[i].line = k

\* The relayed lines are lines with output, in order and without gaps.
InOrder(t, sc, w) ==
  /\ \A i \in 1..Len(w) : w[i].type \in Carries =>
       /\ w[i].line \in 1..Len(sc)
       /\ w[i].type = MeaningIn(t, sc, w[i].line)
  /\ \A i, j \in 1..Len(w) :
       w[i].type \in Carries /\ w[j].type \in Carries /\ i < j =>
         w[i].line < w[j].line
  /\ \A i \in 1..Len(w) : w[i].type \in Carries =>
       \A k \in 1..Len(sc) :
         MeaningIn(t, sc, k) \in Carries /\ k < w[i].line =>
           \E j \in 1..Len(w) : Relays(w, j, k)

\* All lines with output are relayed.
AllRelayed(t, sc, w) ==
  \A k \in 1..Len(sc) : MeaningIn(t, sc, k) \in Carries =>
    \E j \in 1..Len(w) : Relays(w, j, k)

\* No line told of an error, and none but the last was an end mark.
Sound(t, sc) ==
  \A k \in 1..Len(sc) :
    /\ MeaningIn(t, sc, k) # "error"
    /\ MeaningIn(t, sc, k) = "end" => k = Len(sc)

\* What was read and what was relayed of it.
OutputOK ==
  /\ currentEvent = EventIn(script, Len(script) + 1)
  /\ InOrder(types[source], script, wire)
  /\ place = "lines" =>
       \A k \in 1..Len(script) :
         MeaningIn(types[source], script, k) \notin {"error", "end"}
  /\ place \in {"lines", "ended"} => Sound(types[source], script)
  /\ place \in {"lines", "ended"} /\ ~gone => AllRelayed(types[source], script, wire)
  /\ EndsWith(wire, "task_completed") =>
       /\ place \in {"succeeded", "returned"} /\ ~broken
       /\ Sound(types[source], script) /\ AllRelayed(types[source], script, wire)

StreamInv == DispatchInv /\ StreamTypeOK /\ PlaceOK /\ WireOK /\ OutputOK

-----------------------------------------------------------------------------
(* Sequences of events and of lines.                                       *)

\* A longer sequence has what the shorter one had, and the new element.
LEMMA Longer ==
  ASSUME NEW S, NEW s \in Seq(S), NEW e \in S
  PROVE  /\ Append(s, e) \in Seq(S) /\ Len(Append(s, e)) = Len(s) + 1
         /\ Len(s) \in Nat /\ Append(s, e)[Len(s) + 1] = e
         /\ \A i \in 1..Len(s) : Append(s, e)[i] = s[i] /\ i \in 1..Len(Append(s, e))
         /\ Len(s) + 1 \in 1..Len(Append(s, e))
         /\ \A i \in 1..Len(Append(s, e)) : i \in 1..Len(s) \/ i = Len(s) + 1
<1>1. /\ Append(s, e) \in Seq(S) /\ Len(Append(s, e)) = Len(s) + 1
      /\ Len(s) \in Nat /\ Append(s, e)[Len(s) + 1] = e
      /\ \A i \in 1..Len(s) : Append(s, e)[i] = s[i]
  OBVIOUS
<1>2. QED
  BY <1>1

\* An event that may come next makes a stream that is well formed.
LEMMA EmitWellFormed ==
  ASSUME NEW w \in Seq(Event), NEW e \in Event, WellFormed(w), Open(w),
         e.type = "task_started" => Len(w) = 0,
         e.type \in Carries => Started(w)
  PROVE  /\ WellFormed(Append(w, e)) /\ EndsWith(Append(w, e), e.type)
         /\ e.type \notin Terminal => Open(Append(w, e))
         /\ Started(w) \/ e.type = "task_started" => Started(Append(w, e))
<1> DEFINE x == Append(w, e)
<1>1. /\ Len(x) = Len(w) + 1 /\ Len(w) \in Nat /\ x[Len(w) + 1] = e
      /\ \A i \in 1..Len(w) : x[i] = w[i]
      /\ \A i \in 1..Len(x) : i \in 1..Len(w) \/ i = Len(w) + 1
  BY Longer
<1> HIDE DEF x
<1>2. Started(w) => Started(x)
  BY <1>1 DEF Started
<1>3. e.type = "task_started" => Started(x)
  BY <1>1 DEF Started
<1>4. ASSUME NEW i \in 1..Len(x)
      PROVE  /\ x[i].type = "task_started" => i = 1
             /\ x[i].type \in Carries => i > 1 /\ x[1].type = "task_started"
             /\ x[i].type \in Terminal => i = Len(x)
  <2>1. CASE i \in 1..Len(w)
    <3>1. x[i] = w[i] /\ w[i].type \notin Terminal /\ x[1] = w[1]
      BY <1>1, <2>1 DEF Open
    <3>2. QED
      BY <2>1, <3>1 DEF WellFormed
  <2>2. CASE i = Len(w) + 1
    <3>1. e.type \in Carries => Len(w) >= 1 /\ x[1].type = "task_started"
      BY <1>2 DEF Started
    <3>2. QED
      BY <1>1, <2>2, <3>1
  <2>3. QED
    BY <1>1, <2>1, <2>2
<1>5. WellFormed(x) /\ EndsWith(x, e.type)
  BY <1>1, <1>4 DEF WellFormed, EndsWith
<1>6. e.type \notin Terminal => Open(x)
  BY <1>1 DEF Open
<1>7. QED
  BY <1>2, <1>3, <1>5, <1>6 DEF x

\* The lines with an event name that applies to line i.
Naming(sc, i) ==
  {j \in 1..(i - 1) : /\ sc[j] \in EventLines
                      /\ \A k \in j..(i - 1) : sc[k] \in EventLines => k = j
                      /\ \A k \in j..(i - 1) : sc[k] # "empty"}

\* The event name that applies to a line depends on the lines before it, and
\* langgraph's currentEvent follows it from line to line.
LEMMA EventFollows ==
  ASSUME NEW sc \in Seq(Lines), NEW line \in Lines
  PROVE  LET new == Append(sc, line)
         IN  /\ \A i \in 1..(Len(sc) + 1) : EventIn(new, i) = EventIn(sc, i)
             /\ EventIn(new, Len(new) + 1) = EventAfter(EventIn(sc, Len(sc) + 1), line)
<1> DEFINE new == Append(sc, line)
           n == Len(sc)
<1>1. /\ Len(new) = n + 1 /\ n \in Nat /\ new[n + 1] = line
      /\ \A i \in 1..n : new[i] = sc[i]
  BY Longer
<1>2. \A s, i : EventIn(s, i) = IF Naming(s, i) = {} THEN NONE
                                ELSE s[CHOOSE j \in Naming(s, i) : TRUE]
  BY DEF EventIn, Naming
<1> HIDE DEF new, n
<1>3. ASSUME NEW i \in 1..(n + 1) PROVE EventIn(new, i) = EventIn(sc, i)
  <2>1. \A k \in 1..(i - 1) : new[k] = sc[k]
    BY <1>1
  <2>2. ASSUME NEW j \in 1..(i - 1)
        PROVE  j \in Naming(new, i) <=> j \in Naming(sc, i)
    <3>1. \A k \in j..(i - 1) : k \in 1..(i - 1)
      OBVIOUS
    <3>2. QED
      BY <2>1, <3>1 DEF Naming
  <2>3. Naming(new, i) = Naming(sc, i) /\ Naming(sc, i) \subseteq 1..(i - 1)
    BY <2>2 DEF Naming
  <2>4. Naming(sc, i) # {} =>
          new[CHOOSE j \in Naming(sc, i) : TRUE] = sc[CHOOSE j \in Naming(sc, i) : TRUE]
    BY <2>1, <2>3
  <2>5. QED
    BY <1>2, <2>3, <2>4
<1>4. EventIn(new, n + 2) = EventAfter(EventIn(sc, n + 1), line)
  <2>1. /\ (n + 2) - 1 = n + 1 /\ (n + 1) - 1 = n
        /\ \A j \in 1..(n + 1) : n + 1 \in j..(n + 1)
    BY <1>1
  <2>2. CASE line = "empty"
    <3>1. Naming(new, n + 2) = {}
      BY <1>1, <2>1, <2>2 DEF Naming
    <3>2. QED
      BY <1>2, <2>2, <3>1 DEF EventAfter
  <2>3. CASE line \in EventLines
    <3>1. line # "empty"
      BY <2>3 DEF EventLines
    <3>2. n + 1 \in 1..(n + 1) /\ \A k \in (n + 1)..(n + 1) : k = n + 1
      BY <1>1
    <3>3. n + 1 \in Naming(new, n + 2)
      BY <1>1, <2>1, <2>3, <3>1, <3>2 DEF Naming
    <3>4. \A j \in Naming(new, n + 2) : j = n + 1
      BY <1>1, <2>1, <2>3 DEF Naming
    <3>5. EventIn(new, n + 2) = line
      BY <1>1, <1>2, <3>3, <3>4
    <3>6. QED
      BY <2>3, <3>1, <3>5 DEF EventAfter
  <2>4. CASE line # "empty" /\ line \notin EventLines
    <3>1. ASSUME NEW j \in 1..(n + 1)
          PROVE  j \in Naming(new, n + 2) <=> j \in Naming(sc, n + 1)
      <4>1. CASE j = n + 1
        <5>1. j \notin Naming(new, n + 2)
          BY <1>1, <2>4, <4>1 DEF Naming
        <5>2. j \notin 1..((n + 1) - 1)
          BY <1>1, <4>1
        <5>3. QED
          BY <5>1, <5>2 DEF Naming
      <4>2. CASE j # n + 1
        <5>1. j \in 1..n /\ j..(n + 1) = j..n \cup {n + 1}
          BY <1>1, <4>2
        <5>2. \A k \in j..n : k \in 1..n /\ new[k] = sc[k]
          BY <1>1
        <5>3. QED
          BY <1>1, <2>1, <2>4, <5>1, <5>2 DEF Naming
      <4>3. QED
        BY <4>1, <4>2
    <3>2. /\ Naming(new, n + 2) = Naming(sc, n + 1)
          /\ Naming(sc, n + 1) \subseteq 1..n
      <4>1. 1..n \subseteq 1..(n + 1)
        BY <1>1
      <4>2. Naming(new, n + 2) \subseteq 1..(n + 1) /\ Naming(sc, n + 1) \subseteq 1..n
        BY <2>1 DEF Naming
      <4>3. QED
        BY <3>1, <4>1, <4>2
    <3>3. EventIn(new, n + 2) = EventIn(sc, n + 1)
      BY <1>1, <1>2, <3>2
    <3>4. QED
      BY <2>4, <3>3 DEF EventAfter
  <2>5. QED
    BY <2>2, <2>3, <2>4
<1>5. Len(new) + 1 = n + 2
  BY <1>1
<1>6. QED
  BY <1>3, <1>4, <1>5 DEF new, n

\* The meaning of the lines that were read stays, and that of the new line is
\* the verdict with currentEvent.
LEMMA MeaningFollows ==
  ASSUME NEW t, NEW sc \in Seq(Lines), NEW line \in Lines
  PROVE  LET new == Append(sc, line)
         IN  /\ Len(new) = Len(sc) + 1 /\ Len(sc) \in Nat /\ new \in Seq(Lines)
             /\ \A k \in 1..Len(sc) : /\ k \in 1..Len(new)
                                      /\ MeaningIn(t, new, k) = MeaningIn(t, sc, k)
             /\ MeaningIn(t, new, Len(sc) + 1)
                  = Verdict(t, EventIn(sc, Len(sc) + 1), line)
             /\ \A k \in 1..Len(new) : k \in 1..Len(sc) \/ k = Len(sc) + 1
<1> DEFINE new == Append(sc, line)
<1>1. /\ Len(new) = Len(sc) + 1 /\ Len(sc) \in Nat /\ new[Len(sc) + 1] = line
      /\ new \in Seq(Lines)
      /\ \A i \in 1..Len(sc) : new[i] = sc[i] /\ i \in 1..Len(new)
      /\ \A i \in 1..Len(new) : i \in 1..Len(sc) \/ i = Len(sc) + 1
  BY Longer
<1>2. \A i \in 1..(Len(sc) + 1) : EventIn(new, i) = EventIn(sc, i)
  BY EventFollows
<1>3. /\ \A i \in 1..Len(sc) : i \in 1..(Len(sc) + 1)
      /\ Len(sc) + 1 \in 1..(Len(sc) + 1)
  BY <1>1
<1> HIDE DEF new
<1>4. \A k \in 1..Len(sc) : MeaningIn(t, new, k) = MeaningIn(t, sc, k)
  BY <1>1, <1>2, <1>3 DEF MeaningIn
<1>5. MeaningIn(t, new, Len(sc) + 1) = Verdict(t, EventIn(sc, Len(sc) + 1), line)
  BY <1>1, <1>2, <1>3 DEF MeaningIn
<1>6. QED
  BY <1>1, <1>4, <1>5 DEF new

\* A line that is read and not relayed leaves the order as it is.
LEMMA OrderAfterLine ==
  ASSUME NEW t, NEW sc \in Seq(Lines), NEW line \in Lines, NEW w, InOrder(t, sc, w)
  PROVE  InOrder(t, Append(sc, line), w)
<1> DEFINE new == Append(sc, line)
<1>1. /\ Len(new) = Len(sc) + 1 /\ Len(sc) \in Nat
      /\ \A k \in 1..Len(sc) : /\ k \in 1..Len(new)
                               /\ MeaningIn(t, new, k) = MeaningIn(t, sc, k)
  BY MeaningFollows
<1> HIDE DEF new
<1>2. ASSUME NEW i \in 1..Len(w), w[i].type \in Carries
      PROVE  /\ w[i].line \in 1..Len(new)
             /\ w[i].type = MeaningIn(t, new, w[i].line)
  BY <1>1, <1>2 DEF InOrder
<1>3. ASSUME NEW i \in 1..Len(w), w[i].type \in Carries,
             NEW k \in 1..Len(new), MeaningIn(t, new, k) \in Carries, k < w[i].line
      PROVE  \E j \in 1..Len(w) : Relays(w, j, k)
  <2>1. w[i].line \in 1..Len(sc)
    BY <1>3 DEF InOrder
  <2>2. k \in 1..Len(sc)
    BY <1>1, <1>3, <2>1
  <2>3. MeaningIn(t, sc, k) \in Carries
    BY <1>1, <1>3, <2>2
  <2>4. QED
    BY <1>3, <2>2, <2>3 DEF InOrder
<1>4. \A i, j \in 1..Len(w) :
        w[i].type \in Carries /\ w[j].type \in Carries /\ i < j => w[i].line < w[j].line
  BY DEF InOrder
<1>5. InOrder(t, new, w)
  BY <1>2, <1>3, <1>4 DEF InOrder
<1>6. QED
  BY <1>5 DEF new

\* An event that relays nothing leaves the order as it is, and what was relayed.
LEMMA OrderAfterEvent ==
  ASSUME NEW t, NEW sc, NEW w \in Seq(Event), NEW e \in Event, e.type \notin Carries
  PROVE  /\ InOrder(t, sc, w) => InOrder(t, sc, Append(w, e))
         /\ AllRelayed(t, sc, w) => AllRelayed(t, sc, Append(w, e))
<1> DEFINE x == Append(w, e)
<1>1. /\ Len(w) \in Nat /\ x[Len(w) + 1] = e
      /\ \A i \in 1..Len(w) : x[i] = w[i] /\ i \in 1..Len(x)
      /\ \A i \in 1..Len(x) : i \in 1..Len(w) \/ i = Len(w) + 1
  BY Longer
<1> HIDE DEF x
<1>2. \A i \in 1..Len(x) : x[i].type \in Carries => i \in 1..Len(w) /\ x[i] = w[i]
  BY <1>1
<1>3. \A k : (\E j \in 1..Len(w) : Relays(w, j, k)) => \E j \in 1..Len(x) : Relays(x, j, k)
  BY <1>1 DEF Relays
<1>4. ASSUME InOrder(t, sc, w) PROVE InOrder(t, sc, x)
  <2>1. ASSUME NEW i \in 1..Len(x), x[i].type \in Carries
        PROVE  /\ x[i].line \in 1..Len(sc)
               /\ x[i].type = MeaningIn(t, sc, x[i].line)
    BY <1>2, <1>4, <2>1 DEF InOrder
  <2>2. ASSUME NEW i \in 1..Len(x), NEW j \in 1..Len(x),
               x[i].type \in Carries, x[j].type \in Carries, i < j
        PROVE  x[i].line < x[j].line
    BY <1>2, <1>4, <2>2 DEF InOrder
  <2>3. ASSUME NEW i \in 1..Len(x), x[i].type \in Carries,
               NEW k \in 1..Len(sc), MeaningIn(t, sc, k) \in Carries, k < x[i].line
        PROVE  \E j \in 1..Len(x) : Relays(x, j, k)
    <3>1. \E j \in 1..Len(w) : Relays(w, j, k)
      BY <1>2, <1>4, <2>3 DEF InOrder
    <3>2. QED
      BY <1>3, <3>1
  <2>4. QED
    BY <2>1, <2>2, <2>3 DEF InOrder
<1>5. ASSUME AllRelayed(t, sc, w) PROVE AllRelayed(t, sc, x)
  BY <1>3, <1>5 DEF AllRelayed
<1>6. QED
  BY <1>4, <1>5 DEF x

\* A line that is read and relayed at once keeps the order, if all before it
\* were.
LEMMA OrderAfterRelay ==
  ASSUME NEW t, NEW sc \in Seq(Lines), NEW line \in Lines,
         NEW w \in Seq(Event), NEW e \in Event,
         InOrder(t, sc, w), AllRelayed(t, sc, w), e.type \in Carries,
         e.type = Verdict(t, EventIn(sc, Len(sc) + 1), line), e.line = Len(sc) + 1
  PROVE  /\ InOrder(t, Append(sc, line), Append(w, e))
         /\ AllRelayed(t, Append(sc, line), Append(w, e))
<1> DEFINE x == Append(w, e)
           new == Append(sc, line)
<1>1. /\ Len(w) \in Nat /\ x[Len(w) + 1] = e
      /\ \A i \in 1..Len(w) : x[i] = w[i] /\ i \in 1..Len(x)
      /\ \A i \in 1..Len(x) : i \in 1..Len(w) \/ i = Len(w) + 1
      /\ Len(w) + 1 \in 1..Len(x)
  BY Longer
<1>2. /\ Len(new) = Len(sc) + 1 /\ Len(sc) \in Nat
      /\ \A k \in 1..Len(sc) : /\ k \in 1..Len(new)
                               /\ MeaningIn(t, new, k) = MeaningIn(t, sc, k)
      /\ MeaningIn(t, new, Len(sc) + 1) = Verdict(t, EventIn(sc, Len(sc) + 1), line)
      /\ \A k \in 1..Len(new) : k \in 1..Len(sc) \/ k = Len(sc) + 1
  BY MeaningFollows
<1> HIDE DEF x, new
<1>3. Len(sc) + 1 \in 1..Len(new)
  BY <1>2
<1>4. ASSUME NEW i \in 1..Len(x), x[i].type \in Carries
      PROVE  /\ x[i].line \in 1..Len(new)
             /\ x[i].type = MeaningIn(t, new, x[i].line)
  <2>1. CASE i \in 1..Len(w)
    BY <1>1, <1>2, <1>4, <2>1 DEF InOrder
  <2>2. CASE i = Len(w) + 1
    BY <1>1, <1>2, <1>3, <2>2
  <2>3. QED
    BY <1>1, <2>1, <2>2
<1>5. ASSUME NEW i \in 1..Len(x), NEW j \in 1..Len(x),
             x[i].type \in Carries, x[j].type \in Carries, i < j
      PROVE  x[i].line < x[j].line
  <2>1. i \in 1..Len(w)
    BY <1>1, <1>5
  <2>2. x[i] = w[i] /\ w[i].line \in 1..Len(sc)
    BY <1>1, <1>5, <2>1 DEF InOrder
  <2>3. CASE j \in 1..Len(w)
    BY <1>1, <1>5, <2>1, <2>3 DEF InOrder
  <2>4. CASE j = Len(w) + 1
    <3>1. x[j].line = Len(sc) + 1
      BY <1>1, <2>4
    <3>2. QED
      BY <1>2, <2>2, <3>1
  <2>5. QED
    BY <1>1, <2>3, <2>4
<1>6. ASSUME NEW k \in 1..Len(new), MeaningIn(t, new, k) \in Carries
      PROVE  \E j \in 1..Len(x) : Relays(x, j, k)
  <2>1. CASE k \in 1..Len(sc)
    <3>1. PICK j \in 1..Len(w) : Relays(w, j, k)
      BY <1>2, <1>6, <2>1 DEF AllRelayed
    <3>2. j \in 1..Len(x) /\ Relays(x, j, k)
      BY <1>1, <3>1 DEF Relays
    <3>3. QED
      BY <3>2
  <2>2. CASE k = Len(sc) + 1
    <3>1. Relays(x, Len(w) + 1, k)
      BY <1>1, <2>2 DEF Relays
    <3>2. QED
      BY <1>1, <3>1
  <2>3. QED
    BY <1>2, <2>1, <2>2
<1>7. InOrder(t, new, x)
  BY <1>4, <1>5, <1>6 DEF InOrder
<1>8. AllRelayed(t, new, x)
  BY <1>6 DEF AllRelayed
<1>9. QED
  BY <1>7, <1>8 DEF x, new

\* What a line that is not an error makes of the lines that were read.
LEMMA SoundAfterLine ==
  ASSUME NEW t, NEW sc \in Seq(Lines), NEW line \in Lines, NEW w,
         \A k \in 1..Len(sc) : MeaningIn(t, sc, k) \notin {"error", "end"}
  PROVE  LET new == Append(sc, line)
             verdict == Verdict(t, EventIn(sc, Len(sc) + 1), line)
         IN  /\ verdict # "error" => Sound(t, new)
             /\ verdict \notin {"error", "end"} =>
                  \A k \in 1..Len(new) : MeaningIn(t, new, k) \notin {"error", "end"}
             /\ verdict \notin Carries /\ AllRelayed(t, sc, w) => AllRelayed(t, new, w)
<1> DEFINE new == Append(sc, line)
           verdict == Verdict(t, EventIn(sc, Len(sc) + 1), line)
<1>1. /\ Len(new) = Len(sc) + 1 /\ Len(sc) \in Nat
      /\ \A k \in 1..Len(sc) : MeaningIn(t, new, k) = MeaningIn(t, sc, k)
      /\ MeaningIn(t, new, Len(sc) + 1) = verdict
      /\ \A k \in 1..Len(new) : k \in 1..Len(sc) \/ k = Len(sc) + 1
  BY MeaningFollows
<1> HIDE DEF new, verdict
<1>2. verdict # "error" => Sound(t, new)
  BY <1>1 DEF Sound
<1>3. verdict \notin {"error", "end"} =>
        \A k \in 1..Len(new) : MeaningIn(t, new, k) \notin {"error", "end"}
  BY <1>1
<1>4. verdict \notin Carries /\ AllRelayed(t, sc, w) => AllRelayed(t, new, w)
  BY <1>1 DEF AllRelayed
<1>5. QED
  BY <1>2, <1>3, <1>4 DEF new, verdict

-----------------------------------------------------------------------------
(* Steps that leave the output alone.                                      *)

\* Every step is one of Dispatcher or leaves its variables alone.
LEMMA StreamDispatches ==
  ASSUME [StreamNext]_streamVars
  PROVE  [Next]_vars
<1>1. CASE UNCHANGED streamVars
  BY <1>1 DEF streamVars
<1>2. CASE Dispatching \/ Opens \/ RejectsStatus \/ Begins
  BY <1>2 DEF Dispatching, Opens, RejectsStatus, Begins, Next, Step
<1>3. ASSUME NEW line, SkipsLine(line) \/ EndsAt(line) \/ ReportsError(line)
                       \/ RelaysLine(line)
      PROVE  [Next]_vars
  BY <1>3 DEF SkipsLine, EndsAt, ReportsError, RelaysLine, Next, Step
<1>4. CASE Interrupted \/ BodyEnds \/ Completes \/ TranslateReturns \/ Concludes
  BY <1>4 DEF Interrupted, BodyEnds, Completes, TranslateReturns, Concludes, Next, Step
<1>5. CASE ClientGoes \/ ContextCanceled
  BY <1>5 DEF ClientGoes, ContextCanceled, Next
<1>6. CASE KeepsSending \/ ClientStalls \/ ClientReadsOn
  BY <1>6 DEF KeepsSending, ClientStalls, ClientReadsOn
<1>7. QED
  BY <1>1, <1>2, <1>3, <1>4, <1>5, <1>6 DEF StreamNext, Proceeds, BodyArrives

\* Nothing is read or written.
LEMMA OutputKept ==
  ASSUME OutputOK, UNCHANGED <<types, source, script, currentEvent, wire>>,
         place' = "lines" => place = "lines",
         place' = "ended" => place \in {"lines", "ended"},
         place' \in {"lines", "ended"} /\ ~gone' => ~gone,
         EndsWith(wire, "task_completed") => place' \in {"succeeded", "returned"} /\ ~broken'
  PROVE  OutputOK'
BY DEF OutputOK

\* The steps of DispatchStream around the adapter: TranslateStream is not
\* under way, and they succeed only with what it returned.
LEMMA DispatchingFacts ==
  ASSUME DispatchInv, Dispatching
  PROVE  /\ pc # "read" /\ pc' # "read" /\ pc # "done"
         /\ hasEmitted' = hasEmitted /\ mode' = mode
         /\ ~hasEmitted /\ result.code # "ok" => result'.code # "ok"
         /\ hasEmitted => (result'.code = "ok" <=> result.code = "ok")
<1>1. /\ CutOK /\ result \in [code : Codes \cup {NONE},
                             agent : AgentIDs \cup {UnknownID, NONE}]
      /\ stack = <<>> <=> pc \in {"resolve", "done"}
  BY DEF DispatchInv, TypeOK, StackOK
<1>2. CASE Resolve
  <2>1. pc = "resolve" /\ pc' \in {"enter", "done"} /\ hasEmitted' = hasEmitted /\ mode' = mode
    BY <1>2 DEF Resolve, inputs
  <2>2. result.code # "ok" => result'.code # "ok"
    BY <1>2 DEF Resolve
  <2>3. ~hasEmitted
    BY <1>1, <2>1 DEF CutOK
  <2>4. QED
    BY <2>1, <2>2, <2>3
<1>3. CASE Enter \/ Backoff \/ Send \/ DoFails \/ ServerError \/ TryFallback \/ GiveUp
  <2>1. /\ pc \in {"enter", "backoff", "send", "await", "cascade"}
        /\ hasEmitted' = hasEmitted /\ mode' = mode
    BY <1>3 DEF Enter, Backoff, Send, DoFails, ServerError, TryFallback, GiveUp, inputs
  <2>2. ~hasEmitted
    BY <1>1, <2>1 DEF CutOK
  <2>3. pc' # "read"
    BY <1>3 DEF Enter, Backoff, Send, DoFails, ServerError, TryFallback, GiveUp, Return,
                Invoked, NextAttempt
  <2>4. result.code # "ok" => result'.code # "ok"
    BY <1>3 DEF Enter, Backoff, Send, DoFails, ServerError, TryFallback, GiveUp, Return,
                Invoked, NextAttempt, Error
  <2>5. QED
    BY <2>1, <2>2, <2>3, <2>4
<1>4. CASE AfterInvoke
  <2>1. pc = "invoked" /\ hasEmitted' = hasEmitted /\ mode' = mode
    BY <1>4 DEF AfterInvoke, inputs
  <2>2. pc' # "read" /\ result.code # "ok"
    BY <1>1, <1>4, <2>1 DEF AfterInvoke, Return, CutOK
  <2>3. result'.code # "ok"
    BY <1>4, <2>2 DEF AfterInvoke, Return, Error
  <2>4. QED
    BY <2>1, <2>2, <2>3
<1>5. CASE FallbackReturned
  <2>1. pc = "returned" /\ hasEmitted' = hasEmitted /\ mode' = mode /\ pc' # "read"
    BY <1>5 DEF FallbackReturned, Return, inputs
  <2>2. result' = result
    BY <1>5 DEF FallbackReturned, Return
  <2>3. QED
    BY <2>1, <2>2
<1>6. QED
  BY <1>2, <1>3, <1>4, <1>5 DEF Dispatching

\* They keep the invariant.
LEMMA DispatchingKeeps ==
  ASSUME StreamInv, DispatchInv', Dispatching
  PROVE  StreamInv'
<1>1. /\ handler = "dispatching" /\ UNCHANGED <<types, source, place, script, currentEvent,
                                  broken, errorEmitted, wire, gone, handler>>
  BY DEF Dispatching, reading, client
<1>2. /\ DispatchInv /\ StreamTypeOK /\ PlaceOK /\ WireOK /\ OutputOK
  BY DEF StreamInv
<1>3. /\ pc # "read" /\ pc' # "read" /\ pc # "done"
      /\ hasEmitted' = hasEmitted /\ mode' = mode
      /\ ~hasEmitted /\ result.code # "ok" => result'.code # "ok"
      /\ hasEmitted => (result'.code = "ok" <=> result.code = "ok")
  BY <1>2, DispatchingFacts
<1>4. StreamTypeOK'
  BY <1>1, <1>2 DEF StreamTypeOK
<1>5. PlaceOK'
  BY <1>1, <1>2, <1>3 DEF PlaceOK
<1>6. WireOK'
  BY <1>1, <1>2, <1>3 DEF WireOK, PlaceOK
<1>7. OutputOK'
  BY <1>1, <1>2, OutputKept DEF OutputOK
<1>8. QED
  BY <1>4, <1>5, <1>6, <1>7 DEF StreamInv

\* A response has come: nothing was read or written before.
LEMMA OpensKeeps ==
  ASSUME StreamInv, DispatchInv', Opens
  PROVE  StreamInv'
<1>1. /\ DispatchInv /\ StreamTypeOK /\ PlaceOK /\ WireOK /\ OutputOK
  BY DEF StreamInv
<1>2. /\ pc = "await" /\ pc' = "read" /\ handler = "dispatching" /\ source' = Top.agent
      /\ place' = "opened"
      /\ UNCHANGED <<mode, hasEmitted, result, types, script, currentEvent, broken,
                     errorEmitted, wire, gone, handler>>
  BY DEF Opens, Responds, inputs, client
<1>3. ~hasEmitted /\ place = "none"
  BY <1>1, <1>2 DEF DispatchInv, CutOK, PlaceOK
<1>4. script = <<>> /\ wire = <<>> /\ ~errorEmitted /\ result.code # "ok"
  BY <1>1, <1>2, <1>3 DEF PlaceOK
<1>5. source' \in AgentIDs
  BY <1>1, <1>2, TopIsFrame DEF DispatchInv, StackOK
<1>6. StreamTypeOK'
  BY <1>1, <1>2, <1>5 DEF StreamTypeOK
<1>7. PlaceOK'
  BY <1>1, <1>2, <1>3, <1>4 DEF PlaceOK
<1>8. WireOK'
  BY <1>1, <1>2 DEF WireOK
<1>9. OutputOK'
  <2>1. 1..Len(wire) = {} /\ Len(wire) = 0
    BY <1>4
  <2>2. ~EndsWith(wire', "task_completed")
    BY <1>2, <2>1 DEF EndsWith
  <2>3. InOrder(types'[source'], script', wire')
    BY <1>2, <2>1 DEF InOrder
  <2>4. QED
    BY <1>1, <1>2, <2>2, <2>3 DEF OutputOK
<1>10. QED
  BY <1>6, <1>7, <1>8, <1>9 DEF StreamInv

\* What Emit does.
LEMMA EmitFacts ==
  ASSUME StreamTypeOK, NEW type, NEW line, Emit(type, line),
         [type |-> type, line |-> line] \in Event
  PROVE  /\ gone' = gone /\ handler' = handler
         /\ gone => wire' = wire
         /\ ~gone => wire' = Append(wire, [type |-> type, line |-> line])
         /\ wire' \in Seq(Event) /\ errorEmitted' \in BOOLEAN
         /\ type = "task_error" => errorEmitted'
         /\ type # "task_error" => errorEmitted' = errorEmitted
<1>1. wire \in Seq(Event) /\ errorEmitted \in BOOLEAN
  BY DEF StreamTypeOK
<1>2. Append(wire, [type |-> type, line |-> line]) \in Seq(Event)
  BY <1>1, Longer
<1>3. QED
  BY <1>1, <1>2 DEF Emit

\* TranslateStream's first event: the status is rejected or the task started.
LEMMA FirstEventKeeps ==
  ASSUME StreamInv, DispatchInv', RejectsStatus \/ Begins
  PROVE  StreamInv'
<1>1. /\ DispatchInv /\ StreamTypeOK /\ PlaceOK /\ WireOK /\ OutputOK
  BY DEF StreamInv
<1>2. /\ place = "opened" /\ pc = "read" /\ hasEmitted'
      /\ UNCHANGED <<pc, mode, result, types, source, script, currentEvent, broken>>
  BY DEF RejectsStatus, Begins, EmitEvent, inputs
<1>3. handler = "dispatching" /\ ~hasEmitted /\ ~errorEmitted /\ wire = <<>> /\ script = <<>>
  BY <1>1, <1>2 DEF PlaceOK, StreamTypeOK
<1>4. PICK type \in {"task_error", "task_started"} :
        /\ Emit(type, 0)
        /\ place' \in {"lines", "failed"}
        /\ place' = "lines" => type = "task_started"
        /\ type = "task_started" /\ place' = "failed" => gone
  BY DEF RejectsStatus, Begins, EmitFails
<1> DEFINE e == [type |-> type, line |-> 0]
<1>5. e \in Event /\ e.type = type /\ e.type \notin Carries
      /\ e.type # "task_completed"
  BY DEF Event, Terminal, Carries
<1>6. /\ gone' = gone /\ handler' = handler
      /\ gone => wire' = wire
      /\ ~gone => wire' = Append(wire, e)
      /\ wire' \in Seq(Event) /\ errorEmitted' \in BOOLEAN
      /\ type = "task_error" => errorEmitted'
      /\ type # "task_error" => errorEmitted' = errorEmitted
  BY <1>1, <1>4, <1>5, EmitFacts
<1> HIDE DEF e
<1>7. StreamTypeOK'
  BY <1>1, <1>2, <1>4, <1>6 DEF StreamTypeOK
<1>8. PlaceOK'
  BY <1>1, <1>2, <1>3, <1>4, <1>6 DEF PlaceOK
<1>9. /\ wire \in Seq(Event) /\ Len(wire) = 0 /\ WellFormed(wire) /\ Open(wire)
      /\ ~EndsWith(wire, "task_completed")
  BY <1>1, <1>3 DEF StreamTypeOK, WireOK, Open, EndsWith
<1>10. ~gone => /\ WellFormed(wire') /\ EndsWith(wire', type)
                /\ type = "task_started" => Open(wire') /\ Started(wire')
  <2>1. type \notin Terminal <=> type = "task_started"
    BY DEF Terminal
  <2>2. QED
    BY <1>5, <1>6, <1>9, <2>1, EmitWellFormed
<1>11. WireOK'
  <2>1. WellFormed(wire')
    BY <1>6, <1>9, <1>10
  <2>2. ASSUME ~gone'
        PROVE  /\ place' = "lines" => Started(wire') /\ Open(wire')
               /\ place' = "failed" => CutOff(wire', errorEmitted')
    BY <1>4, <1>6, <1>10, <2>2 DEF CutOff
  <2>3. QED
    BY <1>3, <1>4, <1>6, <2>1, <2>2 DEF WireOK
<1>12. OutputOK'
  <2> DEFINE t == types[source]
  <2>1. InOrder(t, script, wire)
    BY <1>1 DEF OutputOK
  <2>2. InOrder(t, script, wire')
    BY <1>5, <1>6, <1>9, <2>1, OrderAfterEvent
  <2>3. 1..Len(script) = {}
    BY <1>3
  <2>4. ~EndsWith(wire', "task_completed")
    BY <1>4, <1>6, <1>9, <1>10 DEF EndsWith
  <2>5. currentEvent = EventIn(script, Len(script) + 1)
    BY <1>1 DEF OutputOK
  <2>6. Sound(t, script) /\ AllRelayed(t, script, wire')
    BY <2>3 DEF Sound, AllRelayed
  <2>7. QED
    BY <1>2, <2>2, <2>3, <2>4, <2>5, <2>6 DEF OutputOK
<1>13. QED
  BY <1>7, <1>8, <1>11, <1>12 DEF StreamInv

-----------------------------------------------------------------------------
(* The lines of the body.                                                  *)

\* Scan returns a line: the invariant's facts about it.
LEMMA ScanFacts ==
  ASSUME StreamInv, NEW line \in BodyLines, Scans(line)
  PROVE  LET t == types[source]
         IN  /\ handler = "dispatching" /\ pc = "read" /\ place = "lines" /\ hasEmitted
             /\ ~errorEmitted /\ result.code # "ok" /\ mode = "stream"
             /\ line \in Lines /\ script \in Seq(Lines) /\ script' = Append(script, line)
             /\ script' \in Seq(Lines) /\ wire \in Seq(Event)
             /\ broken' \in BOOLEAN /\ types' = types /\ source' = source
             /\ currentEvent' \in EventLines \cup {NONE}
             /\ currentEvent' = EventIn(script', Len(script') + 1)
             /\ VerdictOn(line) = Verdict(t, EventIn(script, Len(script) + 1), line)
             /\ Len(script') = Len(script) + 1 /\ Len(script) \in Nat
             /\ InOrder(t, script, wire) /\ InOrder(t, script', wire)
             /\ ~EndsWith(wire, "task_completed") /\ WellFormed(wire)
             /\ ~gone => Started(wire) /\ Open(wire) /\ AllRelayed(t, script, wire)
             /\ \A k \in 1..Len(script) : MeaningIn(t, script, k) \notin {"error", "end"}
<1> DEFINE t == types[source]
<1>1. /\ DispatchInv /\ StreamTypeOK /\ PlaceOK /\ WireOK /\ OutputOK
  BY DEF StreamInv
<1>2. /\ place = "lines" /\ script' = Append(script, line)
      /\ currentEvent' = EventAfter(currentEvent, line)
      /\ broken' \in BOOLEAN /\ types' = types /\ source' = source
  BY DEF Scans
<1>3. pc = "read" /\ hasEmitted /\ mode = "stream"
  BY <1>1, <1>2 DEF PlaceOK
<1>4. handler = "dispatching" /\ ~errorEmitted /\ result.code # "ok"
  <2>1. handler = "dispatching"
    BY <1>1, <1>3 DEF PlaceOK, StreamTypeOK
  <2>2. result.code # "ok"
    BY <1>1, <1>3 DEF DispatchInv, CutOK
  <2>3. QED
    BY <1>1, <1>2, <2>1, <2>2 DEF PlaceOK
<1>5. line \in Lines
  <2>1. source \in AgentIDs /\ line \in LinesOf[types[source]]
    BY <1>1 DEF BodyLines, StreamTypeOK
  <2>2. types[source] \in Adapters
    BY <1>1, <2>1 DEF StreamTypeOK
  <2>3. QED
    BY <2>1, <2>2, LinesAssumption
<1>6. script \in Seq(Lines) /\ wire \in Seq(Event) /\ currentEvent \in EventLines \cup {NONE}
  BY <1>1 DEF StreamTypeOK
<1>7. script' \in Seq(Lines) /\ Len(script') = Len(script) + 1 /\ Len(script) \in Nat
  BY <1>2, <1>5, <1>6, Longer
<1>8. currentEvent' \in EventLines \cup {NONE}
  BY <1>2, <1>6 DEF EventAfter
<1>9. currentEvent = EventIn(script, Len(script) + 1)
  BY <1>1 DEF OutputOK
<1>10. currentEvent' = EventIn(script', Len(script') + 1)
  BY <1>2, <1>5, <1>6, <1>9, EventFollows
<1>11. VerdictOn(line) = Verdict(t, EventIn(script, Len(script) + 1), line)
  BY <1>9 DEF VerdictOn
<1>12. InOrder(t, script, wire)
  BY <1>1 DEF OutputOK
<1>13. InOrder(t, script', wire)
  BY <1>2, <1>5, <1>6, <1>12, OrderAfterLine
<1>14. ~EndsWith(wire, "task_completed")
  BY <1>1, <1>2 DEF OutputOK
<1>15. WellFormed(wire) /\ (~gone => Started(wire) /\ Open(wire))
  BY <1>1, <1>2, <1>4 DEF WireOK
<1>16. ~gone => AllRelayed(t, script, wire)
  BY <1>1, <1>2 DEF OutputOK
<1>17. \A k \in 1..Len(script) : MeaningIn(t, script, k) \notin {"error", "end"}
  BY <1>1, <1>2 DEF OutputOK
<1>18. QED
  BY <1>2, <1>3, <1>4, <1>5, <1>6, <1>7, <1>8, <1>10, <1>11, <1>12, <1>13, <1>14,
     <1>15, <1>16, <1>17

\* A line that no event relays: it is skipped, is the end mark, or cannot be
\* encoded.
LEMMA QuietLineKeeps ==
  ASSUME StreamInv, DispatchInv', NEW line \in BodyLines, Scans(line),
         UNCHANGED client, UNCHANGED <<pc, mode, result>>, hasEmitted',
         \/ VerdictOn(line) = "skip" /\ place' = "lines"
         \/ VerdictOn(line) = "end" /\ place' = "ended"
         \/ place' = "failed"
  PROVE  StreamInv'
<1> DEFINE t == types[source]
<1>1. /\ handler = "dispatching" /\ pc = "read" /\ place = "lines"
      /\ ~errorEmitted /\ result.code # "ok" /\ mode = "stream"
      /\ line \in Lines /\ script \in Seq(Lines) /\ script' = Append(script, line)
      /\ script' \in Seq(Lines) /\ wire \in Seq(Event)
      /\ broken' \in BOOLEAN /\ types' = types /\ source' = source
      /\ currentEvent' \in EventLines \cup {NONE}
      /\ currentEvent' = EventIn(script', Len(script') + 1)
      /\ VerdictOn(line) = Verdict(t, EventIn(script, Len(script) + 1), line)
      /\ InOrder(t, script', wire)
      /\ ~EndsWith(wire, "task_completed") /\ WellFormed(wire)
      /\ ~gone => Started(wire) /\ Open(wire) /\ AllRelayed(t, script, wire)
      /\ \A k \in 1..Len(script) : MeaningIn(t, script, k) \notin {"error", "end"}
  BY ScanFacts
<1>2. UNCHANGED <<errorEmitted, wire, gone, handler>>
  BY DEF client
<1>3. StreamTypeOK'
  BY <1>1, <1>2 DEF StreamInv, StreamTypeOK
<1>4. PlaceOK'
  BY <1>1, <1>2 DEF PlaceOK
<1>5. WireOK'
  BY <1>1, <1>2 DEF WireOK, CutOff
<1>6. OutputOK'
  <2>1. /\ VerdictOn(line) # "error" => Sound(t, script')
        /\ VerdictOn(line) \notin {"error", "end"} =>
             \A k \in 1..Len(script') : MeaningIn(t, script', k) \notin {"error", "end"}
        /\ VerdictOn(line) \notin Carries /\ AllRelayed(t, script, wire) =>
             AllRelayed(t, script', wire)
    BY <1>1, SoundAfterLine
  <2>2. place' \in {"lines", "ended"} => VerdictOn(line) \in {"skip", "end"}
    OBVIOUS
  <2>3. \A v \in {"skip", "end"} : v # "error" /\ v \notin Carries
    BY DEF Carries
  <2>4. place' = "lines" => VerdictOn(line) = "skip"
    OBVIOUS
  <2>5. /\ place' = "lines" =>
             \A k \in 1..Len(script') : MeaningIn(t, script', k) \notin {"error", "end"}
        /\ place' \in {"lines", "ended"} => Sound(t, script')
        /\ place' \in {"lines", "ended"} /\ ~gone => AllRelayed(t, script', wire)
    BY <1>1, <2>1, <2>2, <2>3, <2>4
  <2>6. QED
    BY <1>1, <1>2, <2>5 DEF OutputOK
<1>7. QED
  BY <1>3, <1>4, <1>5, <1>6 DEF StreamInv

\* A line that is relayed, or reported as the agent's error.
LEMMA EventLineKeeps ==
  ASSUME StreamInv, DispatchInv', NEW line \in BodyLines, Scans(line),
         NEW e \in Event, Emit(e.type, e.line), e = [type |-> e.type, line |-> e.line],
         UNCHANGED <<pc, mode, result>>, hasEmitted',
         \/ e.type = "task_error" /\ place' = "failed"
         \/ /\ e.type = VerdictOn(line) /\ e.type \in Carries /\ e.line = Len(script')
            /\ place' = "lines" \/ (place' = "failed" /\ gone)
  PROVE  StreamInv'
<1> DEFINE t == types[source]
<1>1. /\ handler = "dispatching" /\ pc = "read" /\ place = "lines"
      /\ ~errorEmitted /\ result.code # "ok" /\ mode = "stream"
      /\ line \in Lines /\ script \in Seq(Lines) /\ script' = Append(script, line)
      /\ script' \in Seq(Lines) /\ wire \in Seq(Event)
      /\ broken' \in BOOLEAN /\ types' = types /\ source' = source
      /\ currentEvent' \in EventLines \cup {NONE}
      /\ currentEvent' = EventIn(script', Len(script') + 1)
      /\ VerdictOn(line) = Verdict(t, EventIn(script, Len(script) + 1), line)
      /\ Len(script') = Len(script) + 1 /\ Len(script) \in Nat
      /\ InOrder(t, script, wire) /\ InOrder(t, script', wire)
      /\ ~EndsWith(wire, "task_completed") /\ WellFormed(wire)
      /\ ~gone => Started(wire) /\ Open(wire) /\ AllRelayed(t, script, wire)
      /\ \A k \in 1..Len(script) : MeaningIn(t, script, k) \notin {"error", "end"}
  BY ScanFacts
<1>2. /\ gone' = gone /\ handler' = handler
      /\ gone => wire' = wire
      /\ ~gone => wire' = Append(wire, e)
      /\ wire' \in Seq(Event) /\ errorEmitted' \in BOOLEAN
      /\ e.type = "task_error" => errorEmitted'
      /\ e.type # "task_error" => errorEmitted' = errorEmitted
  BY EmitFacts DEF StreamInv
<1>3. /\ e.type # "task_started" /\ e.type # "task_completed"
      /\ e.type \in Carries <=> e.type # "task_error"
      /\ e.type \in Carries => e.type \notin Terminal
  BY DEF Carries, Terminal
<1>4. StreamTypeOK'
  BY <1>1, <1>2 DEF StreamInv, StreamTypeOK
<1>5. PlaceOK'
  BY <1>1, <1>2, <1>3 DEF PlaceOK
<1>6. ~gone => /\ WellFormed(wire') /\ EndsWith(wire', e.type)
               /\ e.type \in Carries => Open(wire') /\ Started(wire')
  BY <1>1, <1>2, <1>3, EmitWellFormed
<1>7. WireOK'
  <2>1. WellFormed(wire')
    BY <1>1, <1>2, <1>6
  <2>2. ASSUME ~gone
        PROVE  /\ place' = "lines" => Started(wire') /\ Open(wire')
               /\ place' = "failed" => CutOff(wire', errorEmitted')
    BY <1>2, <1>3, <1>6, <2>2 DEF CutOff
  <2>3. place' \in {"lines", "failed"}
    OBVIOUS
  <2>4. QED
    BY <1>1, <1>2, <2>1, <2>2, <2>3 DEF WireOK
<1>8. ~EndsWith(wire', "task_completed")
  BY <1>1, <1>2, <1>3, <1>6 DEF EndsWith
<1>9. OutputOK'
  <2>1. CASE e.type = "task_error"
    <3>1. InOrder(t, script', wire')
      BY <1>1, <1>2, <1>3, <2>1, OrderAfterEvent
    <3>2. place' = "failed"
      BY <1>3, <2>1
    <3>3. QED
      BY <1>1, <1>8, <3>1, <3>2 DEF OutputOK
  <2>2. CASE e.type \in Carries
    <3>1. e.type = VerdictOn(line) /\ e.line = Len(script')
          /\ (place' = "lines" \/ (place' = "failed" /\ gone))
      BY <1>3, <2>2
    <3>2. ~gone => InOrder(t, script', wire') /\ AllRelayed(t, script', wire')
      BY <1>1, <1>2, <2>2, <3>1, OrderAfterRelay
    <3>3. gone => InOrder(t, script', wire')
      BY <1>1, <1>2
    <3>4. VerdictOn(line) \notin {"error", "end"}
      BY <2>2, <3>1 DEF Carries
    <3>5. /\ Sound(t, script')
          /\ \A k \in 1..Len(script') : MeaningIn(t, script', k) \notin {"error", "end"}
      BY <1>1, <3>4, SoundAfterLine
    <3>6. QED
      BY <1>1, <1>2, <1>8, <3>2, <3>3, <3>5 DEF OutputOK
  <2>3. QED
    BY <1>3, <2>1, <2>2
<1>10. QED
  BY <1>4, <1>5, <1>7, <1>9 DEF StreamInv

\* The lines of the body keep the invariant.
LEMMA LineKeeps ==
  ASSUME StreamInv, DispatchInv', NEW line \in BodyLines,
         \/ SkipsLine(line) \/ EndsAt(line) \/ ReportsError(line) \/ RelaysLine(line)
  PROVE  StreamInv'
<1>1. Scans(line)
  BY DEF SkipsLine, EndsAt, ReportsError, RelaysLine
<1>2. /\ place = "lines" /\ hasEmitted /\ Len(script') = Len(script) + 1
      /\ Len(script) \in Nat
  BY <1>1, ScanFacts
<1>3. EmitEvent => hasEmitted' /\ UNCHANGED <<pc, mode, result>>
  BY DEF EmitEvent, inputs
<1>4. UNCHANGED vars => hasEmitted' /\ UNCHANGED <<pc, mode, result>>
  BY <1>2 DEF vars
<1>5. CASE SkipsLine(line)
  BY <1>1, <1>2, <1>4, <1>5, QuietLineKeeps DEF SkipsLine
<1>6. CASE EndsAt(line)
  BY <1>1, <1>4, <1>6, QuietLineKeeps DEF EndsAt
<1>7. CASE ReportsError(line)
  <2> DEFINE e == [type |-> "task_error", line |-> 0]
  <2>1. e \in Event /\ e.type = "task_error" /\ e.line = 0
    BY DEF Event, Terminal
  <2>2. e = [type |-> e.type, line |-> e.line]
    OBVIOUS
  <2> HIDE DEF e
  <2>3. Emit(e.type, e.line) /\ EmitEvent /\ place' = "failed"
    BY <1>7, <2>1 DEF ReportsError
  <2>4. QED
    BY <1>1, <1>3, <2>1, <2>2, <2>3, EventLineKeeps
<1>8. CASE RelaysLine(line)
  <2>1. EmitEvent /\ VerdictOn(line) \in Carries
    BY <1>8 DEF RelaysLine, Carries
  <2>2. CASE place' = "failed" /\ UNCHANGED client
    BY <1>1, <1>3, <2>1, <2>2, QuietLineKeeps
  <2>3. CASE Emit(VerdictOn(line), Len(script'))
             /\ \E failed \in BOOLEAN :
                  EmitFails(failed) /\ place' = IF failed THEN "failed" ELSE "lines"
    <3> DEFINE e == [type |-> VerdictOn(line), line |-> Len(script')]
    <3>1. e \in Event /\ e.type = VerdictOn(line) /\ e.line = Len(script')
      BY <1>2, <2>1 DEF Event, Carries
    <3>2. e = [type |-> e.type, line |-> e.line]
      OBVIOUS
    <3> HIDE DEF e
    <3>3. place' = "lines" \/ (place' = "failed" /\ gone)
      BY <2>3 DEF EmitFails
    <3>4. Emit(e.type, e.line)
      BY <2>3, <3>1
    <3>5. QED
      BY <1>1, <1>3, <2>1, <3>1, <3>2, <3>3, <3>4, EventLineKeeps
  <2>4. QED
    BY <1>8, <2>2, <2>3 DEF RelaysLine
<1>9. QED
  BY <1>5, <1>6, <1>7, <1>8

-----------------------------------------------------------------------------
(* The end of the body, of TranslateStream and of the handler.             *)

\* TranslateStream's places while it runs.
LEMMA ReadingFacts ==
  ASSUME StreamInv, place \in {"lines", "ended", "failed", "succeeded"}
  PROVE  /\ pc = "read" /\ handler = "dispatching" /\ hasEmitted /\ mode = "stream"
         /\ result.code # "ok"
         /\ place # "failed" => ~errorEmitted
<1>1. DispatchInv /\ PlaceOK /\ StreamTypeOK
  BY DEF StreamInv
<1>2. pc = "read" /\ hasEmitted /\ mode = "stream"
  BY <1>1 DEF PlaceOK
<1>3. handler = "dispatching"
  BY <1>1, <1>2 DEF PlaceOK, StreamTypeOK
<1>4. result.code # "ok"
  BY <1>1, <1>2 DEF DispatchInv, CutOK
<1>5. place # "failed" => ~errorEmitted
  BY <1>1, <1>3 DEF PlaceOK
<1>6. QED
  BY <1>2, <1>3, <1>4, <1>5

\* The attempt's context ends, or the body.
LEMMA LeavesLoopKeeps ==
  ASSUME StreamInv, DispatchInv', UNCHANGED vars, UNCHANGED client,
         UNCHANGED <<types, source, script, currentEvent>>, broken' \in BOOLEAN,
         \/ place = "lines" /\ place' \in {"failed", "ended"}
         \/ place = "ended" /\ place' = "failed"
  PROVE  StreamInv'
<1>1. StreamTypeOK /\ PlaceOK /\ WireOK /\ OutputOK
  BY DEF StreamInv
<1>2. /\ pc = "read" /\ handler = "dispatching" /\ hasEmitted /\ mode = "stream"
      /\ result.code # "ok" /\ ~errorEmitted
  BY ReadingFacts
<1>3. UNCHANGED <<pc, mode, hasEmitted, result, errorEmitted, wire, gone, handler>>
  BY DEF vars, client
<1>4. StreamTypeOK'
  BY <1>1, <1>3 DEF StreamTypeOK
<1>5. PlaceOK'
  BY <1>1, <1>2, <1>3 DEF PlaceOK
<1>6. WireOK'
  BY <1>1, <1>2, <1>3 DEF WireOK, CutOff
<1>7. ~EndsWith(wire, "task_completed")
  BY <1>1 DEF OutputOK
<1>8. OutputOK'
  BY <1>1, <1>3, <1>7, OutputKept
<1>9. QED
  BY <1>4, <1>5, <1>6, <1>8 DEF StreamInv

\* After the loop: the reader's error, or task_completed of a whole body.
LEMMA CompletesKeeps ==
  ASSUME StreamInv, DispatchInv', Completes
  PROVE  StreamInv'
<1> DEFINE t == types[source]
           e == [type |-> "task_completed", line |-> 0]
<1>1. StreamTypeOK /\ PlaceOK /\ WireOK /\ OutputOK
  BY DEF StreamInv
<1>2. place = "ended" /\ UNCHANGED <<types, source, script, currentEvent, broken>>
  BY DEF Completes
<1>3. /\ pc = "read" /\ handler = "dispatching" /\ hasEmitted /\ mode = "stream"
      /\ result.code # "ok" /\ ~errorEmitted
  BY <1>2, ReadingFacts
<1>4. CASE broken
  BY <1>1, <1>2, <1>4, LeavesLoopKeeps DEF Completes, StreamTypeOK
<1>5. CASE ~broken
  <2>1. /\ EmitEvent /\ Emit("task_completed", 0)
        /\ place' = "succeeded" \/ (place' = "failed" /\ gone)
    BY <1>5 DEF Completes, EmitFails
  <2>2. e \in Event /\ e.type = "task_completed" /\ e.type \notin Carries
    BY DEF Event, Terminal, Carries
  <2>3. UNCHANGED <<pc, mode, result>> /\ hasEmitted'
    BY <2>1 DEF EmitEvent, inputs
  <2>4. /\ gone' = gone /\ handler' = handler
        /\ gone => wire' = wire
        /\ ~gone => wire' = Append(wire, e)
        /\ wire' \in Seq(Event) /\ errorEmitted' = errorEmitted
    BY <1>1, <2>1, <2>2, EmitFacts
  <2> HIDE DEF e
  <2>5. StreamTypeOK'
    BY <1>1, <1>2, <2>1, <2>4 DEF StreamTypeOK
  <2>6. PlaceOK'
    BY <1>1, <1>3, <2>1, <2>3, <2>4 DEF PlaceOK
  <2>7. WellFormed(wire) /\ (~gone => Started(wire) /\ Open(wire)) /\ wire \in Seq(Event)
    BY <1>1, <1>2, <1>3 DEF WireOK, StreamTypeOK
  <2>8. ~gone => WellFormed(wire') /\ EndsWith(wire', "task_completed")
    BY <2>2, <2>4, <2>7, EmitWellFormed
  <2>9. WireOK'
    BY <1>3, <2>1, <2>4, <2>7, <2>8 DEF WireOK
  <2>10. /\ InOrder(t, script, wire) /\ Sound(t, script)
         /\ ~gone => AllRelayed(t, script, wire)
         /\ ~EndsWith(wire, "task_completed")
         /\ currentEvent = EventIn(script, Len(script) + 1)
    BY <1>1, <1>2 DEF OutputOK
  <2>11. InOrder(t, script, wire') /\ (~gone => AllRelayed(t, script, wire'))
    BY <2>2, <2>4, <2>7, <2>10, OrderAfterEvent
  <2>12. EndsWith(wire', "task_completed") => ~gone
    BY <2>4, <2>10
  <2>13. OutputOK'
    BY <1>2, <1>5, <2>1, <2>10, <2>11, <2>12 DEF OutputOK
  <2>14. QED
    BY <2>5, <2>6, <2>9, <2>13 DEF StreamInv
<1>6. QED
  BY <1>4, <1>5

\* TranslateStream returns.
LEMMA TranslateReturnsKeeps ==
  ASSUME StreamInv, DispatchInv', TranslateReturns
  PROVE  StreamInv'
<1>1. DispatchInv /\ StreamTypeOK /\ PlaceOK /\ WireOK /\ OutputOK
  BY DEF StreamInv
<1>2. /\ place \in {"failed", "succeeded"} /\ place' = "returned"
      /\ UNCHANGED <<types, source, script, currentEvent, broken>>
      /\ UNCHANGED <<errorEmitted, wire, gone, handler>>
  BY DEF TranslateReturns, client
<1>3. /\ pc = "read" /\ handler = "dispatching" /\ hasEmitted /\ mode = "stream"
      /\ result.code # "ok" /\ (place # "failed" => ~errorEmitted)
  BY <1>2, ReadingFacts
<1>4. /\ pc' # "read" /\ hasEmitted' = hasEmitted /\ mode' = mode
      /\ result'.code = "ok" <=> place = "succeeded"
  <2>1. CASE place = "failed" /\ ReadFails
    BY <1>3, <2>1 DEF ReadFails, Invoked, inputs
  <2>2. CASE place = "succeeded" /\ ReadSucceeds
    BY <1>3, <2>2 DEF ReadSucceeds, Return, Ok, inputs
  <2>3. QED
    BY <2>1, <2>2 DEF TranslateReturns
<1>5. StreamTypeOK'
  BY <1>1, <1>2 DEF StreamTypeOK
<1>6. PlaceOK'
  BY <1>1, <1>2, <1>3, <1>4 DEF PlaceOK
<1>7. WireOK'
  BY <1>1, <1>2, <1>3, <1>4 DEF WireOK
<1>8. OutputOK'
  BY <1>1, <1>2, OutputKept DEF OutputOK
<1>9. QED
  BY <1>5, <1>6, <1>7, <1>8 DEF StreamInv

\* The handler's tail: an error that no task_error told of is told now.
LEMMA ConcludesKeeps ==
  ASSUME StreamInv, DispatchInv', Concludes
  PROVE  StreamInv'
<1> DEFINE t == types[source]
           e == [type |-> "task_error", line |-> 0]
           tell == result.code # "ok" /\ ~errorEmitted
<1>1. DispatchInv /\ StreamTypeOK /\ PlaceOK /\ WireOK /\ OutputOK
  BY DEF StreamInv
<1>2. /\ handler = "dispatching" /\ pc = "done" /\ handler' = "ended"
      /\ UNCHANGED <<types, source, place, script, currentEvent, broken, gone>>
      /\ UNCHANGED <<pc, mode, hasEmitted, result>>
      /\ errorEmitted' = (errorEmitted \/ tell)
      /\ wire' = IF tell /\ ~gone THEN Append(wire, e) ELSE wire
  BY DEF Concludes, vars, reading
<1>3. place \in {"none", "returned"} /\ (place = "none" => ~errorEmitted /\ wire = <<>>)
  BY <1>1, <1>2 DEF PlaceOK, StreamTypeOK
<1>4. e \in Event /\ e.type = "task_error" /\ e.type \notin Carries
  BY DEF Event, Terminal, Carries
<1> HIDE DEF e
<1>5. wire \in Seq(Event) /\ WellFormed(wire)
  BY <1>1 DEF StreamTypeOK, WireOK
<1>6. wire' \in Seq(Event)
  BY <1>2, <1>4, <1>5, Longer
<1>7. StreamTypeOK'
  BY <1>1, <1>2, <1>6 DEF StreamTypeOK
<1>8. PlaceOK'
  BY <1>1, <1>2 DEF PlaceOK
<1>9. ~gone /\ tell => Open(wire)
  <2>1. CASE place = "none"
    BY <1>3, <2>1 DEF Open
  <2>2. CASE place = "returned"
    BY <1>1, <1>2, <2>2 DEF WireOK, CutOff
  <2>3. QED
    BY <1>3, <2>1, <2>2
<1>10. ~gone /\ tell => WellFormed(wire') /\ EndsWith(wire', "task_error")
  BY <1>2, <1>4, <1>5, <1>9, EmitWellFormed
<1>11. ~gone /\ ~tell => IF result.code = "ok" THEN EndsWith(wire, "task_completed")
                         ELSE EndsWith(wire, "task_error")
  BY <1>1, <1>2, <1>3 DEF WireOK, CutOff, PlaceOK
<1>12. WireOK'
  <2>1. WellFormed(wire')
    BY <1>2, <1>5, <1>10
  <2>2. ~gone => IF result.code = "ok" THEN EndsWith(wire', "task_completed")
                 ELSE EndsWith(wire', "task_error")
    BY <1>2, <1>10, <1>11
  <2>3. QED
    BY <1>2, <2>1, <2>2 DEF WireOK
<1>13. OutputOK'
  <2>1. CASE wire' = wire
    BY <1>1, <1>2, <2>1, OutputKept DEF OutputOK
  <2>2. CASE wire' # wire
    <3>1. wire' = Append(wire, e) /\ ~gone /\ tell
      BY <1>2, <2>2
    <3>2. ~EndsWith(wire', "task_completed")
      BY <1>10, <3>1 DEF EndsWith
    <3>3. InOrder(t, script, wire')
      BY <1>1, <1>4, <1>5, <3>1, OrderAfterEvent DEF OutputOK
    <3>4. QED
      BY <1>1, <1>2, <1>3, <3>2, <3>3 DEF OutputOK
  <2>3. QED
    BY <2>1, <2>2
<1>14. QED
  BY <1>7, <1>8, <1>12, <1>13 DEF StreamInv

\* The connection is lost, or its context is canceled: what was written stays.
LEMMA LossKeeps ==
  ASSUME StreamInv, DispatchInv', UNCHANGED <<pc, mode, hasEmitted, result>>,
         UNCHANGED <<types, reading, errorEmitted, wire, handler>>,
         gone' \in BOOLEAN, gone => gone'
  PROVE  StreamInv'
<1>1. StreamTypeOK /\ PlaceOK /\ WireOK /\ OutputOK
  BY DEF StreamInv
<1>2. StreamTypeOK'
  BY <1>1 DEF StreamTypeOK, reading
<1>3. PlaceOK'
  BY <1>1 DEF PlaceOK, reading
<1>4. WireOK'
  BY <1>1 DEF WireOK, reading
<1>5. OutputOK'
  BY <1>1, OutputKept DEF OutputOK, reading
<1>6. QED
  BY <1>2, <1>3, <1>4, <1>5 DEF StreamInv

-----------------------------------------------------------------------------
(* Theorems.                                                               *)

\* Nothing is dispatched, read or written yet.
LEMMA StreamInitHolds == StreamInit => StreamInv
<1> SUFFICES ASSUME StreamInit PROVE StreamInv
  OBVIOUS
<1>1. DispatchInv
  BY InitKeeps DEF StreamInit
<1>2. /\ types \in [AgentIDs -> Adapters] /\ source = NONE /\ place = "none"
      /\ script = <<>> /\ currentEvent = NONE /\ broken = FALSE
      /\ errorEmitted = FALSE /\ wire = <<>> /\ gone = FALSE /\ handler = "dispatching"
  BY AgentTypesAssumption DEF StreamInit
<1>3. /\ mode = "stream" /\ pc = "resolve" /\ hasEmitted = FALSE
      /\ result.code = NONE
  BY DEF StreamInit, Init, Unserved, Error
<1>4. StreamTypeOK
  BY <1>2, EmptySeq DEF StreamTypeOK
<1>5. PlaceOK
  <2>1. NONE # "ok"
    BY NoneAssumption DEF Codes
  <2>2. QED
    BY <1>2, <1>3, <2>1 DEF PlaceOK
<1>6. Len(wire) = 0 /\ 1..Len(wire) = {} /\ Len(script) = 0 /\ 1..Len(script) = {}
  BY <1>2
<1>7. WireOK
  BY <1>2, <1>6 DEF WireOK, WellFormed
<1>8. OutputOK
  <2>1. EventIn(script, Len(script) + 1) = NONE
    <3>1. 1..((Len(script) + 1) - 1) = {}
      BY <1>6
    <3>2. QED
      BY <3>1 DEF EventIn
  <2>2. InOrder(types[source], script, wire) /\ ~EndsWith(wire, "task_completed")
    BY <1>6 DEF InOrder, EndsWith
  <2>3. QED
    BY <1>2, <2>1, <2>2 DEF OutputOK
<1>9. QED
  BY <1>1, <1>4, <1>5, <1>7, <1>8 DEF StreamInv

\* Every step keeps the invariant.
LEMMA StreamNextKeeps ==
  ASSUME StreamInv, [StreamNext]_streamVars
  PROVE  StreamInv'
<1>1. DispatchInv'
  BY StreamDispatches, NextKeeps DEF StreamInv
<1>2. gone \in BOOLEAN /\ broken \in BOOLEAN
  BY DEF StreamInv, StreamTypeOK
<1>3. CASE UNCHANGED streamVars
  BY <1>1, <1>2, <1>3, LossKeeps DEF streamVars, vars, client
<1>4. CASE Dispatching \/ Opens \/ RejectsStatus \/ Begins
  BY <1>1, <1>4, DispatchingKeeps, OpensKeeps, FirstEventKeeps
<1>5. ASSUME NEW line \in BodyLines,
             SkipsLine(line) \/ EndsAt(line) \/ ReportsError(line) \/ RelaysLine(line)
      PROVE  StreamInv'
  BY <1>1, <1>5, LineKeeps
<1>6. CASE Interrupted
  BY <1>1, <1>2, <1>6, LeavesLoopKeeps DEF Interrupted
<1>7. CASE BodyEnds
  <2>1. broken' \in BOOLEAN
    BY <1>7 DEF BodyEnds
  <2>2. QED
    BY <1>1, <1>7, <2>1, LeavesLoopKeeps DEF BodyEnds
<1>8. CASE Completes \/ TranslateReturns \/ Concludes
  BY <1>1, <1>8, CompletesKeeps, TranslateReturnsKeeps, ConcludesKeeps
<1>9. CASE ClientGoes
  BY <1>1, <1>9, LossKeeps DEF ClientGoes, vars
<1>10. CASE ContextCanceled
  BY <1>1, <1>2, <1>10, LossKeeps DEF ContextCanceled, Cancel, client, inputs
<1>11. CASE KeepsSending \/ ClientStalls \/ ClientReadsOn
  <2>1. UNCHANGED <<vars, types, reading, client>>
    BY <1>11 DEF KeepsSending, ClientStalls, ClientReadsOn
  <2>2. QED
    BY <1>1, <1>2, <2>1, LossKeeps DEF vars, client
<1>12. QED
  BY <1>3, <1>4, <1>5, <1>6, <1>7, <1>8, <1>9, <1>10, <1>11
     DEF StreamNext, Proceeds, BodyArrives

\* Under every schedule of the handler, the client and the connection the
\* places of TranslateStream, the dispatcher and the stream agree.
THEOREM StreamInvariance == StreamSpec => []StreamInv
<1>1. StreamInv /\ [StreamNext]_streamVars => StreamInv'
  BY StreamNextKeeps
<1>2. QED
  BY <1>1, StreamInitHolds, PTL DEF StreamSpec

\* What the client reads is one stream, although the adapter, the dispatcher's
\* error path and the handler's tail (openai.go, dispatcher.go, rest_handler.go) can each
\* write a task_error: one task_started at its head, nothing after its end.
THEOREM OneStream == StreamSpec => []WellFormedStream
<1>1. ASSUME StreamInv PROVE WellFormedStream
  <2>1. TypeOK
    BY <1>1 DEF StreamInv, DispatchInv
  <2>2. WellFormed(wire) /\ DOMAIN wire = 1..Len(wire)
    BY <1>1 DEF StreamInv, WireOK, StreamTypeOK
  <2>3. QED
    BY <2>1, <2>2 DEF WellFormedStream, WellFormed, Carries
<1>2. QED
  BY <1>1, StreamInvariance, PTL

\* A client that stays is told how its request ended: task_completed exactly
\* when DispatchStream returned no error, task_error otherwise.
THEOREM EveryStreamConcluded == StreamSpec => []StreamConcluded
<1>1. ASSUME StreamInv PROVE StreamConcluded
  <2>1. SUFFICES ASSUME handler = "ended", ~gone
                 PROVE  /\ wire # <<>> /\ Last(wire).type \in Terminal
                        /\ Last(wire).type = "task_completed" <=> result.code = "ok"
    BY DEF StreamConcluded
  <2>2. IF result.code = "ok" THEN EndsWith(wire, "task_completed")
        ELSE EndsWith(wire, "task_error")
    BY <1>1, <2>1 DEF StreamInv, WireOK
  <2>3. Last(wire) = wire[Len(wire)] /\ wire \in Seq(Event)
    BY <1>1 DEF Last, StreamInv, StreamTypeOK
  <2>4. wire # <<>>
    BY <2>2, <2>3 DEF EndsWith
  <2>5. QED
    BY <2>2, <2>3, <2>4 DEF EndsWith, Terminal
<1>2. QED
  BY <1>1, StreamInvariance, PTL

\* The client gets the agent's output in order and without gaps however the
\* lines are read and the connection is lost, and with task_completed all of a
\* body that neither told of an error nor broke off.
THEOREM OutputIsWhole == StreamSpec => []WholeOrError
<1>1. ASSUME StreamInv PROVE WholeOrError
  <2> DEFINE t == types[source]
             relayed == {i \in DOMAIN wire : wire[i].type \in Carries}
             output == {k \in DOMAIN script : Meaning(k) \in Carries}
  <2>1. \A k : Meaning(k) = MeaningIn(t, script, k)
    BY DEF Meaning, MeaningIn, EventAt, EventIn
  <2>2. DOMAIN wire = 1..Len(wire) /\ DOMAIN script = 1..Len(script)
    BY <1>1 DEF StreamInv, StreamTypeOK
  <2>3. Last(wire) = wire[Len(wire)] /\ wire \in Seq(Event)
    BY <1>1 DEF Last, StreamInv, StreamTypeOK
  <2>4. InOrder(t, script, wire)
    BY <1>1 DEF StreamInv, OutputOK
  <2> HIDE DEF t
  <2>5. \A i \in relayed :
          wire[i].line \in output /\ wire[i].type = Meaning(wire[i].line)
    BY <2>1, <2>2, <2>4 DEF InOrder
  <2>6. \A i, j \in relayed : i < j => wire[i].line < wire[j].line
    BY <2>2, <2>4 DEF InOrder
  <2>7. \A i \in relayed : \A k \in output :
          k < wire[i].line => \E j \in relayed : wire[j].line = k
    BY <2>1, <2>2, <2>4 DEF InOrder, Relays
  <2>8. ASSUME wire # <<>>, Last(wire).type = "task_completed"
        PROVE  /\ \A k \in output : \E j \in relayed : wire[j].line = k
               /\ ~broken
               /\ \A k \in DOMAIN script :
                    /\ Meaning(k) # "error"
                    /\ Meaning(k) = "end" => k = Len(script)
    <3>1. EndsWith(wire, "task_completed")
      BY <2>3, <2>8 DEF EndsWith
    <3>2. ~broken /\ Sound(t, script) /\ AllRelayed(t, script, wire)
      BY <1>1, <3>1 DEF StreamInv, OutputOK, t
    <3>3. \A k \in output : \E j \in relayed : wire[j].line = k
      BY <2>1, <2>2, <3>2 DEF AllRelayed, Relays
    <3>4. QED
      BY <2>1, <2>2, <3>2, <3>3 DEF Sound
  <2>9. QED
    BY <2>5, <2>6, <2>7, <2>8 DEF WholeOrError
<1>2. QED
  BY <1>1, StreamInvariance, PTL
=============================================================================
