------------------------------ MODULE TaskStore ------------------------------
(***************************************************************************)
(* What storage.TaskStore (pkg/storage/task_store.go) promises its callers *)
(* when nothing is evicted: a Save takes effect at most once and on all of *)
(* its IDs together, a Load returns what its ID has at one moment of the   *)
(* call, and a call that succeeds has had its effect.  A call that fails   *)
(* tells nothing: its effect may have been, may still come, or never.      *)
(***************************************************************************)
CONSTANTS Sessions, TaskIDs, TaskResponses, NONE

VARIABLES
  results,   \* response of each ID
  calls      \* the one call of each session

vars == <<results, calls>>

NoCall ==
  [op |-> "none", ids |-> {}, resp |-> NONE, effect |-> "due", answer |-> NONE]

Init ==
  /\ results = [id \in TaskIDs |-> NONE]
  /\ calls = [s \in Sessions |-> NoCall]

\* Calls that begin; one may be refused at once.
NewCalls ==
  [op : {"save"}, ids : (SUBSET TaskIDs) \ {{}}, resp : TaskResponses,
   effect : {"due"}, answer : {NONE, "err"}]
    \cup
  [op : {"load"}, ids : {{id} : id \in TaskIDs}, resp : {NONE},
   effect : {"due"}, answer : {NONE, "err"}]

Call(s) ==
  /\ calls[s] = NoCall
  /\ calls'[s] \in NewCalls
  /\ calls' = [calls EXCEPT ![s] = calls'[s]]
  /\ UNCHANGED results

\* The effect of a Save, also of one that has failed for its caller.
Store(s) ==
  /\ calls[s].op = "save" /\ calls[s].effect = "due"
  /\ results' = [id \in TaskIDs |-> IF id \in calls[s].ids THEN calls[s].resp
                                    ELSE results[id]]
  /\ calls' = [calls EXCEPT ![s].effect = "done"]

Fetch(s) ==
  /\ calls[s].op = "load" /\ calls[s].effect = "due"
  /\ \E id \in calls[s].ids :
       calls' = [calls EXCEPT ![s].effect = "done", ![s].resp = results[id]]
  /\ UNCHANGED results

Answer(s) ==
  /\ calls[s].op # "none" /\ calls[s].answer = NONE
  /\ calls'[s].answer \in IF calls[s].effect = "done" THEN {"ok", "err"} ELSE {"err"}
  /\ calls' = [calls EXCEPT ![s].answer = calls'[s].answer]
  /\ UNCHANGED results

Next == \E s \in Sessions : Call(s) \/ Store(s) \/ Fetch(s) \/ Answer(s)

Spec == Init /\ [][Next]_vars
=============================================================================
