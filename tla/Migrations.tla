------------------------------ MODULE Migrations ------------------------------
(***************************************************************************)
(* Schema migrations of processes that start at the same time, of the same *)
(* or of different versions of the program (pkg/storage/migrations.go).    *)
(* runMigrations is one READ COMMITTED transaction: each of its statements *)
(* sees what others committed before it, its own writes are seen at COMMIT *)
(* and go with ROLLBACK, and the advisory lock goes with either.           *)
(*                                                                         *)
(* A migration stands for its file: the file name and the checksum of the  *)
(* SQL.  Creating schema_migrations if it is missing is left out: without  *)
(* the table there are no records.  So is its primary key on version, by   *)
(* which an INSERT of a recorded version would fail: nothing here rests on *)
(* it.                                                                     *)
(***************************************************************************)
EXTENDS Integers, Sequences

CONSTANTS
  Processes,
  Binaries,   \* programs: their embedded migrations, by version
  NONE

Migration == [name : STRING, checksum : STRING]

\* What LoadMigrations returns for the files of a program.  The position is the
\* version: duplicates, gaps and an empty directory are refused.
LoadMigrations == Seq(Migration) \ {<<>>}

ASSUME BinariesAssumption == Binaries \subseteq LoadMigrations
ASSUME ProcessesAssumption == NONE \notin Processes

VARIABLES
  binary,    \* the program of each process
  records,   \* schema_migrations: version |-> migration
  schema,    \* history: the migrations whose SQL took effect, in that order
  lock,      \* holder of the advisory lock
  txs        \* the migration transaction of each process

migrationVars == <<binary, records, schema, lock, txs>>

\* applied is what was read from schema_migrations, version the loop variable.
Idle == [pc |-> "idle", applied |-> <<>>, version |-> 1, writes |-> <<>>]

MigrationInit ==
  /\ binary \in [Processes -> Binaries]
  /\ records = <<>> /\ schema = <<>>
  /\ lock = NONE
  /\ txs = [p \in Processes |-> Idle]

SetTx(p, tx) == txs' = [txs EXCEPT ![p] = tx]

-----------------------------------------------------------------------------

Begin(p) ==
  /\ txs[p].pc = "idle"
  /\ SetTx(p, [txs[p] EXCEPT !.pc = "lock"])
  /\ UNCHANGED <<binary, records, schema, lock>>

\* Mutant: the lock is shared.
TakeLockShared(p) ==
  /\ txs[p].pc = "lock"
  /\ lock' = p
  /\ SetTx(p, [txs[p] EXCEPT !.pc = "read"])
  /\ UNCHANGED <<binary, records, schema>>

\* pg_advisory_xact_lock waits for its holder.
TakeLock(p) ==
  /\ txs[p].pc = "lock"
  /\ lock = NONE
  /\ lock' = p
  /\ SetTx(p, [txs[p] EXCEPT !.pc = "read"])
  /\ UNCHANGED <<binary, records, schema>>

ReadApplied(p) ==
  /\ txs[p].pc = "read"
  /\ SetTx(p, [txs[p] EXCEPT !.pc = "check", !.applied = records])
  /\ UNCHANGED <<binary, records, schema, lock>>

\* The transaction is rolled back, and the process does not start.
RolledBack(p) ==
  /\ lock' = IF lock = p THEN NONE ELSE lock
  /\ SetTx(p, [Idle EXCEPT !.pc = "failed"])
  /\ UNCHANGED <<binary, records, schema>>

\* Mutant: versions this program does not know are passed over.
KnownNames(p) ==
  \A v \in DOMAIN txs[p].applied :
    v \in DOMAIN binary[p] => txs[p].applied[v].name = binary[p][v].name

\* Every recorded version is one of this program's, under the same name.
Known(p) ==
  \A v \in DOMAIN txs[p].applied :
    /\ v \in DOMAIN binary[p]
    /\ txs[p].applied[v].name = binary[p][v].name

CheckKnown(p) ==
  /\ txs[p].pc = "check"
  /\ IF Known(p) THEN /\ SetTx(p, [txs[p] EXCEPT !.pc = "apply"])
                      /\ UNCHANGED <<binary, records, schema, lock>>
     ELSE RolledBack(p)

\* One iteration over the migrations: the checksum of a recorded one is
\* compared, any other is executed and recorded.
ApplyNext(p) ==
  LET tx == txs[p]
      m  == binary[p][tx.version]
      Go(writes) ==
        /\ SetTx(p, [tx EXCEPT !.version = @ + 1, !.writes = writes])
        /\ UNCHANGED <<binary, records, schema, lock>>
  IN  /\ tx.pc = "apply" /\ tx.version <= Len(binary[p])
      /\ IF tx.version \notin DOMAIN tx.applied
         THEN Go(Append(tx.writes, [version |-> tx.version, migration |-> m]))
         ELSE IF tx.applied[tx.version].checksum = m.checksum
              THEN Go(tx.writes) ELSE RolledBack(p)

Written(p) == {txs[p].writes[i].version : i \in DOMAIN txs[p].writes}

\* COMMIT takes effect; its reply may be lost, and the process then gives up.
Commit(p) ==
  /\ txs[p].pc = "apply" /\ txs[p].version > Len(binary[p])
  /\ records' = [v \in DOMAIN records \cup Written(p) |->
                   IF v \in Written(p) THEN binary[p][v] ELSE records[v]]
  /\ schema' = schema \o [i \in DOMAIN txs[p].writes |->
                            txs[p].writes[i].migration]
  /\ lock' = NONE
  /\ \E pc \in {"migrated", "failed"} : SetTx(p, [Idle EXCEPT !.pc = pc])
  /\ UNCHANGED binary

\* A statement fails, the connect timeout ends the wait, or the process dies.
Abort(p) ==
  /\ txs[p].pc \in {"lock", "read", "check", "apply"}
  /\ RolledBack(p)

MigrationStep(p) ==
  \/ Begin(p)
  \/ TakeLock(p)
  \/ ReadApplied(p)
  \/ CheckKnown(p)
  \/ ApplyNext(p)
  \/ Commit(p)
  \/ Abort(p)

-----------------------------------------------------------------------------

MigrationTypeOK ==
  /\ binary \in [Processes -> Binaries]
  /\ \A v \in DOMAIN records : v \in Nat /\ records[v] \in Migration
  /\ schema \in Seq(Migration)
  /\ lock \in Processes \cup {NONE}
  /\ \A p \in Processes :
       txs[p].pc \in {"idle", "lock", "read", "check", "apply", "migrated",
                      "failed"}

\* schema_migrations tells what happened to the schema: versions 1 to n, each
\* executed once, in order, exactly as recorded, whatever processes of
\* different versions started, gave up or died together.
SchemaAsRecorded == records = schema

\* A process that migrates (with migrate_on_start, which is off by default) goes
\* on to serve only when the schema is exactly its own: all of its migrations
\* are there, none it does not know, none with another text.
StartsOnKnownSchema ==
  [][\A p \in Processes :
       txs[p].pc # "migrated" /\ txs'[p].pc = "migrated" =>
         records' = binary[p]]_migrationVars
=============================================================================
