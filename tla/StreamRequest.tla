---------------------------- MODULE StreamRequest ----------------------------
(***************************************************************************)
(* One streamed request from the SSE headers to its last event: the tails  *)
(* of DispatchTaskStream and StreamAgent, DispatchStream below them (the   *)
(* Dispatcher module in mode "stream"), the TranslateStream of the adapter *)
(* whose agent answers, and the SSE writer.  Each step is a step of        *)
(* Dispatcher together with what it reads, writes and records, or a step   *)
(* of the adapter that Dispatcher does not see.                            *)
(*                                                                         *)
(* A line of the agent's body is what the adapters tell apart in it, and   *)
(* an event is its type and, if it relays a line, the number of the line.  *)
(***************************************************************************)
EXTENDS Dispatcher, SequencesExt

CONSTANTS
  AgentTypes,   \* the types the agents may have: a set of [AgentIDs -> Adapters]
  LinesOf,      \* the lines of the bodies of each type of agent
  MaxLines      \* bound: lines of a body

VARIABLES
  types,         \* type of each agent
  source,        \* the agent whose body is read
  place,         \* where TranslateStream is
  script,        \* lines it has read
  currentEvent,  \* langgraph's variable of that name
  broken,        \* scanner.Err(): the body ended in an error
  errorEmitted,  \* errorTrackingEmitter.errorEmitted
  wire,          \* events the client has got
  gone,          \* the connection to the client is lost
  handler,       \* the HTTP handler: "dispatching" or "ended"
  stalled,       \* an Emit waits for a client that has stopped reading
  beats          \* toggled by each line of a body beyond MaxLines

reading == <<source, place, script, currentEvent, broken>>
client  == <<errorEmitted, wire, gone, handler>>
flow    == <<stalled, beats>>
streamVars == <<vars, types, reading, client, flow>>

\* custom without and with a done_sentinel.
Adapters == {"openai", "langgraph", "crewai", "autogen", "custom", "sentinel"}

ASSUME AgentTypesAssumption == AgentTypes \subseteq [AgentIDs -> Adapters]
ASSUME MaxLinesAssumption == MaxLines \in Nat

-----------------------------------------------------------------------------
(* Lines of an SSE body.                                                   *)

\* event: lines, by what langgraph makes of the name.
EventLines ==
  {"event:end", "event:error", "event:token", "event:step", "event:other"}

\* data: lines, by what they hold: the end mark ([DONE], or the sentinel of a
\* custom agent), a JSON object with an error member, with a step member, with a
\* thought or action member, with text where the adapter looks for it, or
\* anything else.
DataLines == {"done", "error", "step", "thought", "text", "other"}

\* "comment" is a line that is neither empty nor event: nor data:.
Lines == {"empty", "comment"} \cup EventLines \cup DataLines

ASSUME LinesAssumption == LinesOf \in [Adapters -> SUBSET Lines]

\* A line makes an adapter skip it, end, fail, or relay it as an event: "skip",
\* "end", "error", "delta", "step".

openai(line) ==
  CASE line = "done"  -> "end"
    [] line = "error" -> "error"
    [] line = "text"  -> "delta"
    [] OTHER          -> "skip"

autogen(line) ==
  CASE line = "done"      -> "end"
    [] line = "error"     -> "error"
    [] line = "step"      -> "step"
    [] line \in DataLines \ {"done", "error", "step"} -> "delta"
    [] OTHER              -> "skip"

crewai(line) ==
  CASE line = "done"                -> "end"
    [] line = "error"               -> "error"
    [] line \in {"step", "thought"} -> "step"
    [] line \in {"text", "other"}   -> "delta"
    [] OTHER                        -> "skip"

custom(line, sentinel) ==
  CASE line = "done" /\ sentinel -> "end"
    [] line \in DataLines /\ ~(line = "done" /\ sentinel) -> "delta"
    [] OTHER -> "skip"

langgraph(event, line) ==
  CASE line \notin DataLines -> "skip"
    [] line = "done"         -> "end"
    [] OTHER ->
         CASE event = "event:end"   -> "end"
           [] event = "event:error" -> "error"
           [] event = "event:token" -> "delta"
           [] event = "event:step"  -> "step"
           [] OTHER -> IF line = "text" THEN "delta" ELSE "step"

Verdict(type, event, line) ==
  CASE type = "openai"    -> openai(line)
    [] type = "autogen"   -> autogen(line)
    [] type = "crewai"    -> crewai(line)
    [] type = "langgraph" -> langgraph(event, line)
    [] OTHER              -> custom(line, type = "sentinel")

\* Mutant: an empty line does not end the event.
EventKept(event, line) == IF line \in EventLines THEN line ELSE event

\* langgraph's currentEvent after a line.
EventAfter(event, line) ==
  IF line = "empty" THEN NONE
  ELSE IF line \in EventLines THEN line ELSE event

-----------------------------------------------------------------------------

StreamInit ==
  /\ Init /\ mode = "stream"
  /\ types \in AgentTypes
  /\ source = NONE /\ place = "none" /\ script = <<>> /\ currentEvent = NONE /\ broken = FALSE
  /\ errorEmitted = FALSE /\ wire = <<>> /\ gone = FALSE
  /\ handler = "dispatching"
  /\ stalled = FALSE /\ beats = FALSE

\* Emit of the three emitters on top of each other, as far as they keep state;
\* Dispatcher's EmitEvent is the trackingEmitter.  A client that is gone gets
\* nothing.
Emit(type, line) ==
  /\ errorEmitted' = (errorEmitted \/ type = "task_error")
  /\ wire' = IF gone THEN wire ELSE Append(wire, [type |-> type, line |-> line])
  /\ UNCHANGED <<gone, handler>>

\* Emit's error.  Writing to a lost connection fails at once or only when the
\* buffers are full.
EmitFails(failed) == failed \in IF gone THEN BOOLEAN ELSE {FALSE}

\* A payload with a number that JSON cannot express is not written; openai
\* relays strings only.
Unencodable == types[source] # "openai"

-----------------------------------------------------------------------------
(* TranslateStream.                                                        *)

\* client.Do has returned a status below 500.
Opens ==
  /\ handler = "dispatching"
  /\ Responds
  /\ source' = Top.agent
  /\ place' = "opened"
  /\ UNCHANGED <<types, script, currentEvent, broken, client>>

\* A status of 400 or more.
RejectsStatus ==
  /\ place = "opened" /\ EmitEvent
  /\ Emit("task_error", 0)
  /\ place' = "failed"
  /\ UNCHANGED <<types, source, script, currentEvent, broken>>

Begins ==
  /\ place = "opened" /\ EmitEvent
  /\ Emit("task_started", 0)
  /\ \E failed \in BOOLEAN :
       /\ EmitFails(failed)
       /\ place' = IF failed THEN "failed" ELSE "lines"
  /\ UNCHANGED <<types, source, script, currentEvent, broken>>

\* scanner.Scan() returns a line; the last one may be cut off by an error.
Scans(line) ==
  /\ place = "lines" /\ ~ctxDone
  /\ Len(script) < MaxLines /\ ~broken
  /\ script' = Append(script, line)
  /\ currentEvent' = EventAfter(currentEvent, line)
  /\ broken' \in BOOLEAN
  /\ UNCHANGED <<types, source>>

BodyLines == IF source = NONE THEN {} ELSE LinesOf[types[source]]

VerdictOn(line) == Verdict(types[source], currentEvent, line)

SkipsLine(line) ==
  /\ Scans(line)
  /\ VerdictOn(line) = "skip"
  /\ UNCHANGED <<vars, place, client>>

EndsAt(line) ==
  /\ Scans(line)
  /\ VerdictOn(line) = "end"
  /\ place' = "ended"
  /\ UNCHANGED <<vars, client>>

\* Emit's result is ignored.
ReportsError(line) ==
  /\ Scans(line) /\ EmitEvent
  /\ VerdictOn(line) = "error"
  /\ Emit("task_error", 0)
  /\ place' = "failed"

RelaysLine(line) ==
  /\ Scans(line) /\ EmitEvent
  /\ VerdictOn(line) \in {"delta", "step"}
  /\ \/ /\ Emit(VerdictOn(line), Len(script'))
        /\ \E failed \in BOOLEAN :
             /\ EmitFails(failed)
             /\ place' = IF failed THEN "failed" ELSE "lines"
     \/ Unencodable /\ place' = "failed" /\ UNCHANGED client

\* The agent goes on sending when MaxLines lines are recorded: keep-alives,
\* which no adapter looks at, without end.
KeepsSending ==
  /\ place = "lines" /\ ~ctxDone
  /\ Len(script) = MaxLines /\ ~broken
  /\ beats' = ~beats
  /\ UNCHANGED <<vars, types, reading, client, stalled>>

\* Mutant: an attempt has no deadline of its own.
InterruptedByCaller ==
  /\ place = "lines" /\ ctxDone
  /\ place' = "failed"
  /\ UNCHANGED <<vars, types, source, script, currentEvent, broken, client>>

\* The attempt's context is done: its deadline or the caller's.  The line that
\* was read, if any, is dropped.
Interrupted ==
  /\ place = "lines"
  /\ place' = "failed"
  /\ UNCHANGED <<vars, types, source, script, currentEvent, broken, client>>

\* The body ends, well or with an error.
BodyEnds ==
  /\ place = "lines"
  /\ place' = "ended"
  /\ broken' \in IF broken THEN {TRUE} ELSE BOOLEAN
  /\ UNCHANGED <<vars, types, source, script, currentEvent, client>>

\* After the loop: scanner.Err(), else task_completed.
Completes ==
  /\ place = "ended"
  /\ IF broken
     THEN place' = "failed" /\ UNCHANGED <<vars, client>>
     ELSE /\ EmitEvent
          /\ Emit("task_completed", 0)
          /\ \E failed \in BOOLEAN :
               /\ EmitFails(failed)
               /\ place' = IF failed THEN "failed" ELSE "succeeded"
  /\ UNCHANGED <<types, source, script, currentEvent, broken>>

\* TranslateStream returns to invokeAgentStreamWithRetries.
TranslateReturns ==
  /\ \/ place = "failed" /\ ReadFails
     \/ place = "succeeded" /\ ReadSucceeds
  /\ place' = "returned"
  /\ UNCHANGED <<types, source, script, currentEvent, broken, client>>

-----------------------------------------------------------------------------

\* The steps of DispatchStream around the adapter.
Dispatching ==
  /\ handler = "dispatching"
  /\ \/ Resolve \/ Enter \/ Backoff \/ Send \/ DoFails \/ ServerError
     \/ AfterInvoke \/ TryFallback \/ FallbackReturned \/ GiveUp
  /\ UNCHANGED <<types, reading, client>>

\* Mutant: the handler reports every error.
ConcludesTwice ==
  /\ handler = "dispatching" /\ pc = "done"
  /\ wire' = IF result.code # "ok" /\ ~gone
             THEN Append(wire, [type |-> "task_error", line |-> 0]) ELSE wire
  /\ handler' = "ended"
  /\ UNCHANGED <<vars, types, reading, errorEmitted, gone>>

\* Mutant: the handler reports no error.
ConcludesSilently ==
  /\ handler = "dispatching" /\ pc = "done"
  /\ handler' = "ended"
  /\ UNCHANGED <<vars, types, reading, errorEmitted, wire, gone>>

\* DispatchStream has returned.  An error that no task_error told of is told.
Concludes ==
  /\ handler = "dispatching" /\ pc = "done"
  /\ LET tell == result.code # "ok" /\ ~errorEmitted
     IN  /\ errorEmitted' = (errorEmitted \/ tell)
         /\ wire' = IF tell /\ ~gone
                    THEN Append(wire, [type |-> "task_error", line |-> 0])
                    ELSE wire
  /\ handler' = "ended"
  /\ UNCHANGED <<vars, types, reading, gone>>

\* The places where the next step may be an Emit.
EmitDue ==
  \/ place \in {"opened", "lines"}
  \/ place = "ended" /\ ~broken
  \/ handler = "dispatching" /\ pc = "done" /\ result.code # "ok" /\ ~errorEmitted

\* The client stays and stops reading: once the buffers are full Emit does not
\* return.  The handlers have cleared the write deadline, and the attempt's
\* deadline does not reach a write.
ClientStalls ==
  /\ EmitDue /\ ~gone /\ ~stalled
  /\ stalled' = TRUE
  /\ UNCHANGED <<vars, types, reading, client, beats>>

ClientReadsOn ==
  /\ stalled
  /\ stalled' = FALSE
  /\ UNCHANGED <<vars, types, reading, client, beats>>

\* A lost connection ends a write that waits.
ClientGoes ==
  /\ handler = "dispatching" /\ ~gone
  /\ gone' = TRUE /\ stalled' = FALSE
  /\ UNCHANGED <<vars, types, reading, errorEmitted, wire, handler, beats>>

\* net/http cancels the request's context some time after the connection is
\* lost, and for no other reason while the handler runs.
ContextCanceled ==
  /\ gone /\ Cancel
  /\ UNCHANGED <<types, reading, client, flow>>

\* What the proxy does by itself, by its deadlines included.
Proceeds ==
  /\ ~stalled
  /\ \/ Dispatching
     \/ Opens
     \/ RejectsStatus
     \/ Begins
     \/ Interrupted
     \/ Completes
     \/ TranslateReturns
     \/ Concludes
  /\ UNCHANGED flow

\* What it does when the agent sends.
BodyArrives ==
  /\ ~stalled
  /\ \/ \E line \in BodyLines : SkipsLine(line)
     \/ \E line \in BodyLines : EndsAt(line)
     \/ \E line \in BodyLines : ReportsError(line)
     \/ \E line \in BodyLines : RelaysLine(line)
     \/ BodyEnds
  /\ UNCHANGED flow

StreamNext ==
  \/ Proceeds
  \/ BodyArrives
  \/ ~stalled /\ KeepsSending
  \/ ClientStalls
  \/ ClientReadsOn
  \/ ClientGoes
  \/ ContextCanceled

\* The agent may fall silent or send for ever: its timeout, which the loader
\* never leaves at zero, bounds every attempt, the reading of the body
\* included.  Nothing makes a client read; a write is finite, so one that reads
\* on whenever it has stalled lets the proxy proceed.
StreamSpec == StreamInit /\ [][StreamNext]_streamVars /\ SF_streamVars(Proceeds)
-----------------------------------------------------------------------------
(* Properties.                                                             *)

Terminal == {"task_completed", "task_error"}

\* What the client reads is one stream: task_started only at its head, and
\* after task_completed or task_error nothing more, although the adapter, the
\* dispatcher's error path and the handler's tail can each write a task_error.
WellFormedStream ==
  /\ TypeOK
  /\ \A i \in DOMAIN wire :
       /\ wire[i].type = "task_started" => i = 1
       /\ wire[i].type \in {"delta", "step"} =>
            i > 1 /\ wire[1].type = "task_started"
       /\ wire[i].type \in Terminal => i = Len(wire)

\* A client that stays is never left without an ending, and the ending tells
\* what DispatchStream returned.
StreamConcluded ==
  handler = "ended" /\ ~gone =>
    /\ wire # <<>> /\ Last(wire).type \in Terminal
    /\ Last(wire).type = "task_completed" <=> result.code = "ok"

\* The event field that applies to line i of a body: the last one since the
\* last empty line.
EventAt(i) ==
  LET before == {j \in 1..(i - 1) :
                   /\ script[j] \in EventLines
                   /\ \A k \in j..(i - 1) :
                        script[k] \in EventLines => k = j
                   /\ \A k \in j..(i - 1) : script[k] # "empty"}
  IN  IF before = {} THEN NONE ELSE script[CHOOSE j \in before : TRUE]

\* What line i of the body is by itself.
Meaning(i) == Verdict(types[source], EventAt(i), script[i])

\* What is relayed carries output.
Carries == {"delta", "step"}

\* The client has got the agent's output in order and without gaps, however
\* the reading of lines, a lost connection and a cut body interleave.  With
\* task_completed it has all of it: every line before the end mark that carries
\* output, of a body that neither told of an error nor broke off.
WholeOrError ==
  LET relayed == {i \in DOMAIN wire : wire[i].type \in Carries}
      output  == {k \in DOMAIN script : Meaning(k) \in Carries}
  IN  /\ \A i \in relayed :
           wire[i].line \in output /\ wire[i].type = Meaning(wire[i].line)
      /\ \A i, j \in relayed : i < j => wire[i].line < wire[j].line
      /\ \A i \in relayed : \A k \in output :
           k < wire[i].line => \E j \in relayed : wire[j].line = k
      /\ wire # <<>> /\ Last(wire).type = "task_completed" =>
           /\ \A k \in output : \E j \in relayed : wire[j].line = k
           /\ ~broken
           /\ \A k \in DOMAIN script :
                /\ Meaning(k) # "error"
                /\ Meaning(k) = "end" => k = Len(script)

\* Every streamed request ends, for a client that stays with an ending, also
\* when the agent sends without end or not at all.  The one exception is a
\* client that stays and reads no more: with the write deadline cleared, the
\* handler waits for it as long as the connection lasts.
StreamEnds ==
  \/ <>(handler = "ended" /\ (gone \/ Last(wire).type \in Terminal))
  \/ <>[]stalled
=============================================================================
