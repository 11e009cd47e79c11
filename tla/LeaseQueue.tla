------------------------------ MODULE LeaseQueue ------------------------------
(***************************************************************************)
(* What the durable job ledger promises, without its table, tokens or      *)
(* time (the contract of JobRepository, pkg/storage/job_repository.go): a  *)
(* job waits, is held under a lease nobody had before, and either goes     *)
(* back to waiting or is done for good.  Each job comes with a number of   *)
(* leases it may use up.                                                   *)
(***************************************************************************)
EXTENDS Integers

CONSTANTS
  Keys,     \* job identities
  Leases,   \* lease identities
  NoLease

VARIABLES
  phase,    \* absent, waiting, held or done
  holder,   \* the lease a held job is under
  issued,   \* the leases each job was ever held under
  left      \* how many leases a job may still use

vars == <<phase, holder, issued, left>>

Init ==
  /\ phase = [k \in Keys |-> "absent"]
  /\ holder = [k \in Keys |-> NoLease]
  /\ issued = [k \in Keys |-> {}]
  /\ left = [k \in Keys |-> 0]

Submit(k) ==
  /\ phase[k] = "absent"
  /\ left'[k] \in Nat \ {0}
  /\ phase' = [phase EXCEPT ![k] = "waiting"]
  /\ left' = [left EXCEPT ![k] = left'[k]]
  /\ UNCHANGED <<holder, issued>>

\* Waiting jobs are given leases that were never issued for them before.
Grant(S) ==
  /\ \A k \in S : /\ phase[k] = "waiting"
                  /\ holder'[k] \in Leases \ issued[k]
                  /\ left[k] > 0
  /\ phase' = [k \in Keys |-> IF k \in S THEN "held" ELSE phase[k]]
  /\ holder' = [k \in Keys |-> IF k \in S THEN holder'[k] ELSE holder[k]]
  /\ issued' = [k \in Keys |-> IF k \in S THEN issued[k] \cup {holder'[k]}
                               ELSE issued[k]]
  /\ left' = [k \in Keys |-> IF k \in S THEN left[k] - 1 ELSE left[k]]

\* Held jobs are let go: one by the holder of its lease, or several when their
\* leases ran out.  Only a job with leases left may wait again.
Release(S) ==
  /\ \A k \in S : /\ phase[k] = "held"
                  /\ phase'[k] \in {"waiting", "done"}
                  /\ phase'[k] = "waiting" => left[k] > 0
  /\ phase' = [k \in Keys |-> IF k \in S THEN phase'[k] ELSE phase[k]]
  /\ holder' = [k \in Keys |-> IF k \in S THEN NoLease ELSE holder[k]]
  /\ UNCHANGED <<issued, left>>

\* A waiting job is canceled.
Withdraw(k) ==
  /\ phase[k] = "waiting"
  /\ phase' = [phase EXCEPT ![k] = "done"]
  /\ UNCHANGED <<holder, issued, left>>

Next ==
  \/ \E k \in Keys : Submit(k)
  \/ \E S \in SUBSET Keys : Grant(S)
  \/ \E S \in SUBSET Keys : Release(S)
  \/ \E k \in Keys : Withdraw(k)

Spec == Init /\ [][Next]_vars
=============================================================================
