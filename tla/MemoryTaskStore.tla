--------------------------- MODULE MemoryTaskStore ---------------------------
(***************************************************************************)
(* The bounded in-memory task store (pkg/storage/memory.go).  Save runs    *)
(* under the mutex and is one action; Load reads.  The list holds the IDs  *)
(* in FIFO order, the map the response each ID has.                        *)
(***************************************************************************)
EXTENDS Integers, SequencesExt

CONSTANTS
  TaskIDs, TaskResponses,
  NoID,        \* an empty string
  MaxTasks,    \* capacity
  MaxAliases,  \* bound: aliases of one Save
  MaxSaves     \* bound: successful Saves

ASSUME CapacityAssumption == MaxTasks \in Nat \ {0}
ASSUME NoIDAssumption == NoID \notin TaskIDs
ASSUME AliasesAssumption == MaxAliases \in Nat

VARIABLES
  ll,         \* IDs, oldest first
  tasks,      \* ID |-> response
  saves,      \* history: number of successful Saves
  lastSaved   \* history: the Save that last stored an ID, 0 for none

vars == <<ll, tasks, saves, lastSaved>>

Init ==
  /\ ll = <<>>
  /\ tasks = <<>>
  /\ saves = 0
  /\ lastSaved = [id \in TaskIDs |-> 0]

\* The canonical ID and the aliases, each once and in order, without the empty
\* ones.
UniqueKeys(canonical, aliases) ==
  LET keys[n \in 0..Len(aliases)] ==
        IF n = 0 THEN <<canonical>>
        ELSE IF aliases[n] = NoID \/ Contains(keys[n - 1], aliases[n])
             THEN keys[n - 1] ELSE Append(keys[n - 1], aliases[n])
  IN  keys[Len(aliases)]

\* The elements of s that are in S, in their order.
Within(s, S) ==
  LET kept[n \in 0..Len(s)] ==
        IF n = 0 THEN <<>>
        ELSE IF s[n] \in S THEN Append(kept[n - 1], s[n]) ELSE kept[n - 1]
  IN  kept[Len(s)]

FreshKeys(keys) == Within(keys, TaskIDs \ DOMAIN tasks)

\* Mutant: updated keys keep their place.
NotRefreshed(keys) == ll

\* The list after MoveToBack for each key the map has.
Refreshed(keys) ==
  Within(ll, TaskIDs \ ToSet(keys)) \o Within(keys, DOMAIN tasks)

\* Mutant: one eviction too few.
EvictionsTooFew(fresh) ==
  LET excess == Cardinality(DOMAIN tasks) + fresh - MaxTasks - 1
  IN  IF excess > 0 THEN excess ELSE 0

\* How many entries the loop drops from the front to make room.
Evictions(fresh) ==
  LET excess == Cardinality(DOMAIN tasks) + fresh - MaxTasks
  IN  IF excess > 0 THEN excess ELSE 0

\* Save of more keys than the store can hold: ErrCapacityExceeded.
SaveRejected(canonical, aliases) ==
  /\ Len(UniqueKeys(canonical, aliases)) > MaxTasks
  /\ UNCHANGED vars

\* The update, eviction and insertion of Save.
Store(keys, resp) ==
  LET fresh == FreshKeys(keys)
      list  == Refreshed(keys)
      front == SubSeq(list, 1, Min({Evictions(Len(fresh)), Len(list)}))
  IN  /\ ll' = SubSeq(list, Len(front) + 1, Len(list)) \o fresh
      /\ tasks' = [id \in (DOMAIN tasks \ ToSet(front)) \cup ToSet(fresh) |->
                     IF Contains(keys, id) THEN resp ELSE tasks[id]]
      /\ saves' = saves + 1
      /\ lastSaved' = [id \in TaskIDs |-> IF Contains(keys, id) THEN saves + 1
                                          ELSE lastSaved[id]]

\* Mutant: the size of the batch is not checked.
SaveUnchecked(canonical, resp, aliases) ==
  /\ saves < MaxSaves
  /\ Store(UniqueKeys(canonical, aliases), resp)

Save(canonical, resp, aliases) ==
  LET keys == UniqueKeys(canonical, aliases)
  IN  /\ saves < MaxSaves
      /\ Len(keys) <= MaxTasks
      /\ Store(keys, resp)

AliasLists == BoundedSeq(TaskIDs \cup {NoID}, MaxAliases)

Next ==
  \E canonical \in TaskIDs, aliases \in AliasLists :
    \/ SaveRejected(canonical, aliases)
    \/ \E resp \in TaskResponses : Save(canonical, resp, aliases)

Spec == Init /\ [][Next]_vars
-----------------------------------------------------------------------------

\* List and map name the same IDs, each once, and never more than the store
\* may hold: an ID that is in one of them only could be neither loaded nor
\* evicted.
StoreConsistent ==
  /\ IsInjective(ll)
  /\ DOMAIN tasks = ToSet(ll) /\ ToSet(ll) \subseteq TaskIDs
  /\ Len(ll) <= MaxTasks

\* Eviction takes the oldest, and only for want of room, also when a Save
\* updates some of its IDs and inserts others: an ID that was saved and cannot
\* be loaded any more is no newer than any that can, and the store is full.
EvictsOldestFirst ==
  \A gone \in {id \in TaskIDs : lastSaved[id] > 0} \ ToSet(ll) :
    /\ \A id \in ToSet(ll) : lastSaved[gone] <= lastSaved[id]
    /\ Len(ll) = MaxTasks

\* A Save is all or nothing: afterwards its canonical ID and every alias have
\* the same response, for the eviction never reaches an ID of its own batch.
SaveIsAtomic ==
  [][saves' # saves =>
       LET batch == {id \in TaskIDs : lastSaved'[id] = saves'}
       IN  /\ batch \subseteq DOMAIN tasks'
           /\ \A x, y \in batch : tasks'[x] = tasks'[y]]_vars
=============================================================================
