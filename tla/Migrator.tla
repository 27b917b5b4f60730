------------------------------ MODULE Migrator ------------------------------
(***************************************************************************)
(* cmd/migrate over internal/adapters/postgres/migrator.go: several        *)
(* processes that apply schema.sql in a transaction, verify it, or create  *)
(* the audit_log partitions of a year, while somebody runs schema.sql by   *)
(* hand, as the setup guide and the container's init script do.            *)
(*                                                                         *)
(* External is PostgreSQL: schema changes are transactional; who creates   *)
(* what an open transaction has created waits for its end, and fails if it *)
(* commits; an open transaction of a lost connection is rolled back.       *)
(***************************************************************************)
EXTENDS Naturals, Sequences, FiniteSets

CONSTANTS
    Process,          \* runs of cmd/migrate
    Nobody,           \* no process
    Year,             \* years of audits
    SchemaPartition   \* the partitions schema.sql creates itself

Quarter == 1..4
Partition == Year \X Quarter

ASSUME NobodyAssumption == Nobody \notin Process
ASSUME SchemaPartitionAssumption == SchemaPartition \subseteq Partition
ASSUME YearAssumption ==
    Year \cap {"initial_schema", "status", "migrate", "verify"} = {}

\* The statements of schema.sql in their order, like with like.
Schema == <<"extensions", "equipment", "equipment_indexes", "audit_log",
            "audit_indexes", "imei_info", "functions", "views">>

\* Those that fail if what they create exists.
Once == {"equipment_indexes", "audit_indexes", "imei_info"}

\* What VerifySchema looks for, in its order.
Checks == <<"extensions", "equipment", "audit_log", "functions", "views">>

VARIABLES
    applied,       \* how many statements of schema.sql have been executed
    byHand,        \* how many of them by hand
    partitions,    \* partitions of audit_log
    tracking,      \* the table schema_migrations exists
    recorded,      \* the migrations in it: "initial_schema", and years
    holder,        \* process whose open transaction has executed schema.sql
    command,       \* what each process was started for
    pc,            \* what it does next, or how it ended
    step           \* the statement or check of its loop

database == <<applied, byHand, partitions, tracking, recorded>>
vars == <<database, holder, command, pc, step>>

Exists == {Schema[n] : n \in 1..applied}
Complete == applied = Len(Schema)

\* -status, -verify, neither, or -create-partition=<year>.
Command == {"status", "migrate", "verify"} \cup Year

Ended == {"new", "ok", "missing", "failed"}
Running(p) == pc[p] \notin Ended

Init ==
    /\ applied = 0
    /\ byHand = 0
    /\ partitions = {}
    /\ tracking = FALSE
    /\ recorded = {}
    /\ holder = Nobody
    /\ command = [p \in Process |-> "migrate"]
    /\ pc = [p \in Process |-> "new"]
    /\ step = [p \in Process |-> 1]

Goto(p, label) == pc' = [pc EXCEPT ![p] = label]

-----------------------------------------------------------------------------
(* main *)

Start(p) ==
    /\ pc[p] = "new"
    /\ \E what \in Command :
          /\ command' = [command EXCEPT ![p] = what]
          /\ Goto(p, CASE what = "status" -> "status"
                       [] what \in Year -> "partition"
                       [] OTHER -> "table")
    /\ UNCHANGED <<database, holder, step>>

\* Seeded fault: the connection with the open transaction stays.
FailsHolding(p) ==
    /\ Running(p)
    /\ Goto(p, "failed")
    /\ UNCHANGED <<database, holder, command, step>>

\* A call fails, or the process is killed: os.Exit, and the connections close.
Fails(p) ==
    /\ Running(p)
    /\ Goto(p, "failed")
    /\ holder' = IF holder = p THEN Nobody ELSE holder
    /\ UNCHANGED <<database, command, step>>

\* showMigrationStatus: an error if the table is not there.
ShowStatus(p) ==
    /\ pc[p] = "status"
    /\ Goto(p, IF tracking THEN "ok" ELSE "failed")
    /\ UNCHANGED <<database, holder, command, step>>

\* Migrate returned no error.
Migrated(p) == Goto(p, IF command[p] = "verify" THEN "verify" ELSE "ok")

-----------------------------------------------------------------------------
(* Migrate *)

CreateMigrationTable(p) ==
    /\ pc[p] = "table"
    /\ tracking' = TRUE
    /\ Goto(p, "check")
    /\ UNCHANGED <<applied, byHand, partitions, recorded, holder, command, step>>

\* Seeded fault: a database with the table counts as migrated.
CheckTracking(p) ==
    /\ pc[p] = "check"
    /\ IF tracking THEN Migrated(p) ELSE Goto(p, "execute")
    /\ UNCHANGED <<database, holder, command, step>>

IsMigrationApplied(p) ==
    /\ pc[p] = "check"
    /\ IF "initial_schema" \in recorded THEN Migrated(p) ELSE Goto(p, "execute")
    /\ UNCHANGED <<database, holder, command, step>>

\* Seeded fault: another's transaction is neither waited for nor in the way.
ExecuteSchemaBeside(p) ==
    /\ pc[p] = "execute"
    /\ IF Exists \cap Once = {}
       THEN holder' = p /\ Goto(p, "record")
       ELSE Goto(p, "failed") /\ UNCHANGED holder
    /\ UNCHANGED <<database, command, step>>

\* The whole of schema.sql in a transaction: it waits for another's, and fails
\* at the first statement that cannot be repeated.
ExecuteSchema(p) ==
    /\ pc[p] = "execute"
    /\ holder = Nobody
    /\ IF Exists \cap Once = {}
       THEN holder' = p /\ Goto(p, "record")
       ELSE Goto(p, "failed") /\ UNCHANGED holder
    /\ UNCHANGED <<database, command, step>>

\* Seeded fault: the record is not written by the transaction.
RecordMigrationAtOnce(p) ==
    /\ pc[p] = "record"
    /\ recorded' = recorded \cup {"initial_schema"}
    /\ Goto(p, "commit")
    /\ UNCHANGED <<applied, byHand, partitions, tracking, holder, command, step>>

\* Part of the transaction: nobody sees it yet.
RecordMigration(p) ==
    /\ pc[p] = "record"
    /\ Goto(p, "commit")
    /\ UNCHANGED <<database, holder, command, step>>

\* The commit is told to the process, or lost after it was made.
Commit(p) ==
    /\ pc[p] = "commit"
    /\ applied' = Len(Schema)
    /\ partitions' = partitions \cup SchemaPartition
    /\ recorded' = recorded \cup {"initial_schema"}
    /\ holder' = Nobody
    /\ Migrated(p) \/ Goto(p, "failed")
    /\ UNCHANGED <<byHand, tracking, command, step>>

-----------------------------------------------------------------------------
(* VerifySchema *)

\* Seeded fault: the loop counts on past its last object.
VerifyOn(p) ==
    /\ pc[p] = "verify"
    /\ step' = [step EXCEPT ![p] = @ + 1]
    /\ Goto(p, CASE Checks[step[p]] \notin Exists -> "missing"
                 [] step[p] < Len(Checks)         -> "verify"
                 [] OTHER                         -> "ok")
    /\ UNCHANGED <<database, holder, command>>

\* One query for each object; schema_migrations is there since Migrate.
Verify(p) ==
    /\ pc[p] = "verify"
    /\ IF Checks[step[p]] \notin Exists
       THEN Goto(p, "missing") /\ UNCHANGED step
       ELSE IF step[p] < Len(Checks)
       THEN step' = [step EXCEPT ![p] = @ + 1] /\ UNCHANGED pc
       ELSE Goto(p, "ok") /\ UNCHANGED step
    /\ UNCHANGED <<database, holder, command>>

-----------------------------------------------------------------------------
(* CreatePartitionsForYear *)

\* Seeded fault: a quarter that cannot be created is left out.
CreatePartitionOrNot(p) ==
    /\ pc[p] = "partition"
    /\ partitions' \in {partitions, partitions \cup {<<command[p], step[p]>>}}
    /\ IF step[p] < 4
       THEN step' = [step EXCEPT ![p] = @ + 1] /\ UNCHANGED pc
       ELSE Goto(p, "is_recorded") /\ UNCHANGED step
    /\ UNCHANGED <<applied, byHand, tracking, recorded, holder, command>>

\* One statement for each quarter, each of them committed by itself.
CreatePartition(p) ==
    /\ pc[p] = "partition"
    /\ IF "audit_log" \notin Exists
       THEN Goto(p, "failed") /\ UNCHANGED <<partitions, step>>
       ELSE /\ partitions' = partitions \cup {<<command[p], step[p]>>}
            /\ IF step[p] < 4
               THEN step' = [step EXCEPT ![p] = @ + 1] /\ UNCHANGED pc
               ELSE Goto(p, "is_recorded") /\ UNCHANGED step
    /\ UNCHANGED <<applied, byHand, tracking, recorded, holder, command>>

\* An error here ends in success, without a record: so without the table.
IsPartitionRecorded(p) ==
    /\ pc[p] = "is_recorded"
    /\ \/ Goto(p, "record_partition") /\ tracking /\ command[p] \notin recorded
       \/ Goto(p, "ok")
    /\ UNCHANGED <<database, holder, command, step>>

\* Its error, be it that another process has recorded the year, is dropped.
RecordPartition(p) ==
    /\ pc[p] = "record_partition"
    /\ recorded' \in {recorded, recorded \cup {command[p]}}
    /\ Goto(p, "ok")
    /\ UNCHANGED <<applied, byHand, partitions, tracking, holder, command, step>>

-----------------------------------------------------------------------------

\* The next statement of schema.sql is executed by hand, and committed; errors
\* do not stop the script.  It waits for a transaction that executes it too.
ApplyByHand ==
    /\ byHand < Len(Schema)
    /\ holder = Nobody
    /\ byHand' = byHand + 1
    /\ applied' = IF applied < byHand' THEN byHand' ELSE applied
    /\ partitions' = IF "audit_log" \in {Schema[n] : n \in 1..byHand'}
                     THEN partitions \cup SchemaPartition ELSE partitions
    /\ UNCHANGED <<tracking, recorded, holder, command, pc, step>>

\* What a process does once it is started.
Run(p) ==
    \/ ShowStatus(p)
    \/ CreateMigrationTable(p) \/ IsMigrationApplied(p) \/ ExecuteSchema(p)
    \/ RecordMigration(p) \/ Commit(p)
    \/ Verify(p)
    \/ CreatePartition(p) \/ IsPartitionRecorded(p) \/ RecordPartition(p)

Next ==
    \/ \E p \in Process : Start(p) \/ Run(p) \/ Fails(p)
    \/ ApplyByHand

Spec == Init /\ [][Next]_vars

\* Processes run, and the database answers.
FairSpec == Spec /\ \A p \in Process : WF_vars(Run(p))

-----------------------------------------------------------------------------
(* Properties *)

TypeOK ==
    /\ applied \in 0..Len(Schema)
    /\ byHand \in 0..applied
    /\ partitions \subseteq Partition
    /\ tracking \in BOOLEAN
    /\ recorded \subseteq Year \cup {"initial_schema"}
    /\ holder \in Process \cup {Nobody}
    /\ command \in [Process -> Command]
    /\ pc \in [Process -> Ended \cup
                  {"status", "table", "check", "execute", "record", "commit",
                   "verify", "partition", "is_recorded", "record_partition"}]
    /\ step \in [Process -> 1..5]

\* schema_migrations tells the truth, whoever was killed at whatever point: a
\* recorded schema is there as a whole, and all quarters of a recorded year.
RecordedComplete ==
    /\ "initial_schema" \in recorded => Complete
    /\ \A y \in recorded \cap Year : {y} \X Quarter \subseteq partitions

\* Left to the migrator, the schema is there as a whole or not at all, and it
\* is recorded if and only if it is there.
AllOrNothing ==
    byHand = 0 => /\ applied \in {0, Len(Schema)}
                  /\ Complete <=> "initial_schema" \in recorded

\* A process that ends with success has done what it was started for, and one
\* that verifies what Migrate has done, or found done, finds nothing missing.
SuccessTrue ==
    \A p \in Process :
        /\ pc[p] # "missing"
        /\ pc[p] = "ok" /\ command[p] \in {"migrate", "verify"} => Complete
        /\ pc[p] = "ok" /\ command[p] \in Year =>
              {command[p]} \X Quarter \subseteq partitions

\* However processes meet, are killed or are disturbed by hand, the database is
\* migrated in one step, once, and only where all of the schema can be executed:
\* of two that find it unapplied one migrates and the other fails.
Phase(label) ==
    CASE label \in {"new", "ok"}                      -> label
      [] label \in {"execute", "record", "commit"}    -> "migrating"
      [] label \in {"failed", "missing"}              -> "failed"
      [] OTHER                                        -> "working"

Database == INSTANCE MigratedDatabase WITH
    Statement <- {Schema[n] : n \in 1..Len(Schema)},
    exists <- Exists,
    asked <- command,
    state <- [p \in Process |-> Phase(pc[p])]

ImplementsDatabase == Database!Spec

\* Every process ends, though it may wait for another's transaction, and that
\* process may be killed.
EveryoneEnds == \A p \in Process : Running(p) ~> ~Running(p)

=============================================================================
