--------------------------- MODULE MigratorProofs ---------------------------
(***************************************************************************)
(* Proofs about Migrator, for every number of processes and every set of   *)
(* years, whatever part of its partitions schema.sql creates.              *)
(***************************************************************************)
EXTENDS Migrator, TLAPS

-----------------------------------------------------------------------------
(* schema.sql *)

LEMMA SchemaLength == Len(Schema) = 8 /\ Len(Checks) = 5
BY DEF Schema, Checks

\* All that VerifySchema looks for is part of the schema.
LEMMA CompleteExists ==
    ASSUME Complete, NEW n \in 1..5
    PROVE  Checks[n] \in Exists
<1>1. applied = 8
  BY SchemaLength DEF Complete
<1>2. Schema[1] \in Exists /\ Schema[2] \in Exists /\ Schema[4] \in Exists
  BY <1>1 DEF Exists
<1>3. Schema[7] \in Exists /\ Schema[8] \in Exists
  BY <1>1 DEF Exists
<1>4. /\ Checks[1] = Schema[1] /\ Checks[2] = Schema[2]
      /\ Checks[3] = Schema[4] /\ Checks[4] = Schema[7]
      /\ Checks[5] = Schema[8]
  BY DEF Checks, Schema
<1>5. n = 1 \/ n = 2 \/ n = 3 \/ n = 4 \/ n = 5
  OBVIOUS
<1> QED
  BY <1>2, <1>3, <1>4, <1>5

-----------------------------------------------------------------------------
(* The inductive invariant *)

Label == Ended \cup {"status", "table", "check", "execute", "record", "commit",
                     "verify", "partition", "is_recorded", "record_partition"}

\* All quarters of a year have their partition.
YearComplete(y) == {y} \X Quarter \subseteq partitions

\* What a process has done by the time it reaches each of its steps.
ProcessOK(p) ==
    /\ pc[p] \in {"new", "table", "check", "execute", "record", "commit"} =>
          step[p] = 1
    /\ pc[p] = "status" => command[p] = "status"
    /\ pc[p] \in {"table", "check", "execute", "record", "commit"} =>
          command[p] \in {"migrate", "verify"}
    /\ pc[p] = "verify" => command[p] = "verify" /\ Complete
    /\ pc[p] = "partition" =>
          /\ command[p] \in Year
          /\ step[p] \in Quarter
          /\ \A q \in Quarter : q < step[p] => <<command[p], q>> \in partitions
    /\ pc[p] \in {"is_recorded", "record_partition"} =>
          command[p] \in Year /\ YearComplete(command[p])
    /\ pc[p] # "missing"
    /\ pc[p] = "ok" /\ command[p] \in {"migrate", "verify"} => Complete
    /\ pc[p] = "ok" /\ command[p] \in Year => YearComplete(command[p])

MigratorInv ==
    /\ TypeOK
    /\ RecordedComplete
    /\ AllOrNothing
    /\ \A p \in Process : ProcessOK(p)

LEMMA InitInv == Init => MigratorInv
<1> SUFFICES ASSUME Init
             PROVE  MigratorInv
  OBVIOUS
<1>1. tracking \in BOOLEAN
  BY DEF Init
<1>2. pc \in [Process -> Label] /\ step \in [Process -> 1..5]
  BY DEF Init, Label, Ended
<1>3. TypeOK
  BY <1>1, <1>2, SchemaLength DEF Init, TypeOK, Command, Label
<1>4. RecordedComplete /\ AllOrNothing
  BY SchemaLength DEF Init, RecordedComplete, AllOrNothing, Complete
<1>5. \A p \in Process : ProcessOK(p)
  BY DEF Init, ProcessOK
<1> QED
  BY <1>3, <1>4, <1>5 DEF MigratorInv

-----------------------------------------------------------------------------
(* Steps *)

\* The database only grows, and only p's place in its program changes.
LocalStep(p) ==
    /\ partitions \subseteq partitions'
    /\ Complete => Complete'
    /\ \A q \in Process \ {p} : /\ pc'[q] = pc[q]
                                /\ command'[q] = command[q]
                                /\ step'[q] = step[q]

LEMMA OthersKeep ==
    ASSUME MigratorInv, NEW p \in Process, LocalStep(p), ProcessOK(p)'
    PROVE  \A q \in Process : ProcessOK(q)'
<1> SUFFICES ASSUME NEW q \in Process \ {p}
             PROVE  ProcessOK(q)'
  OBVIOUS
<1>1. \A y : YearComplete(y) => YearComplete(y)'
  BY DEF LocalStep, YearComplete
<1> QED
  BY <1>1 DEF MigratorInv, LocalStep, ProcessOK

\* A process that goes on leaves the variables of the others alone.
LEMMA GotoLabel ==
    ASSUME TypeOK, NEW p \in Process, NEW label, Goto(p, label)
    PROVE  /\ pc'[p] = label
           /\ \A q \in Process \ {p} : pc'[q] = pc[q]
           /\ label \in Label => pc' \in [Process -> Label]
BY DEF TypeOK, Goto, Label

\* A step that leaves the database alone.
LEMMA LocalInv ==
    ASSUME MigratorInv, NEW p \in Process, UNCHANGED <<database, command>>,
           holder' \in Process \cup {Nobody},
           NEW label \in Label, Goto(p, label),
           step' \in [Process -> 1..5],
           \A q \in Process \ {p} : step'[q] = step[q],
           ProcessOK(p)'
    PROVE  MigratorInv'
<1>1. pc' \in [Process -> Label] /\ \A q \in Process \ {p} : pc'[q] = pc[q]
  BY GotoLabel DEF MigratorInv
<1>2. LocalStep(p)
  BY <1>1 DEF database, LocalStep, Complete
<1>3. TypeOK'
  BY <1>1 DEF MigratorInv, TypeOK, database, Label
<1>4. RecordedComplete' /\ AllOrNothing'
  BY DEF MigratorInv, RecordedComplete, AllOrNothing, Complete, database
<1> QED
  BY <1>2, <1>3, <1>4, OthersKeep DEF MigratorInv

LEMMA NextInv == MigratorInv /\ [Next]_vars => MigratorInv'
<1> SUFFICES ASSUME MigratorInv, [Next]_vars
             PROVE  MigratorInv'
  OBVIOUS
<1> USE SchemaLength
<1>a. TypeOK /\ pc \in [Process -> Label] /\ step \in [Process -> 1..5]
  BY DEF MigratorInv, TypeOK, Label
<1>1. ASSUME NEW p \in Process, Start(p)
      PROVE  MigratorInv'
  <2>1. PICK what \in Command :
           /\ command' = [command EXCEPT ![p] = what]
           /\ Goto(p, CASE what = "status" -> "status"
                        [] what \in Year -> "partition"
                        [] OTHER -> "table")
    BY <1>1 DEF Start
  <2>2. /\ command'[p] = what
        /\ command' \in [Process -> Command]
        /\ \A q \in Process \ {p} : command'[q] = command[q]
    BY <1>a, <2>1 DEF TypeOK
  <2>3. \/ what = "status" /\ Goto(p, "status")
        \/ what \in Year /\ Goto(p, "partition")
        \/ what \in {"migrate", "verify"} /\ Goto(p, "table")
    BY <2>1, YearAssumption DEF Command
  <2>4. UNCHANGED <<database, holder, step>> /\ step[p] = 1
    BY <1>1 DEF Start, MigratorInv, ProcessOK
  <2>5. /\ pc' \in [Process -> Label]
        /\ \A q \in Process \ {p} : pc'[q] = pc[q]
        /\ \/ what = "status" /\ pc'[p] = "status"
           \/ what \in Year /\ pc'[p] = "partition"
           \/ what \in {"migrate", "verify"} /\ pc'[p] = "table"
    BY <1>a, <2>3, GotoLabel DEF Label
  <2>6. ProcessOK(p)'
    BY <2>2, <2>4, <2>5 DEF ProcessOK, Quarter
  <2>7. LocalStep(p)
    BY <2>2, <2>4, <2>5 DEF LocalStep, database, Complete
  <2>8. TypeOK'
    BY <1>a, <2>2, <2>4, <2>5 DEF TypeOK, database, Label
  <2>9. RecordedComplete' /\ AllOrNothing'
    BY <2>4 DEF MigratorInv, RecordedComplete, AllOrNothing, Complete, database
  <2> QED
    BY <2>6, <2>7, <2>8, <2>9, OthersKeep DEF MigratorInv
<1>2. ASSUME NEW p \in Process, Fails(p)
      PROVE  MigratorInv'
  <2>1. /\ Goto(p, "failed") /\ "failed" \in Label
        /\ UNCHANGED <<database, command, step>>
        /\ holder' \in Process \cup {Nobody}
    BY <1>a, <1>2 DEF Fails, Label, Ended, TypeOK
  <2>2. ProcessOK(p)'
    BY <1>a, <2>1, GotoLabel DEF ProcessOK
  <2> QED
    BY <1>a, <2>1, <2>2, LocalInv
<1>3. ASSUME NEW p \in Process, ShowStatus(p)
      PROVE  MigratorInv'
  <2>1. PICK label \in {"ok", "failed"} : Goto(p, label)
    BY <1>3 DEF ShowStatus
  <2>2. UNCHANGED <<database, holder, command, step>> /\ command[p] = "status"
    BY <1>3 DEF ShowStatus, MigratorInv, ProcessOK
  <2>3. pc'[p] \in {"ok", "failed"} /\ label \in Label
    BY <1>a, <2>1, GotoLabel DEF Label, Ended
  <2>4. ProcessOK(p)'
    BY <2>2, <2>3, YearAssumption DEF ProcessOK
  <2> QED
    BY <1>a, <2>1, <2>2, <2>3, <2>4, LocalInv DEF TypeOK
<1>4. ASSUME NEW p \in Process, CreateMigrationTable(p)
      PROVE  MigratorInv'
  <2>1. /\ UNCHANGED <<applied, byHand, partitions, recorded, holder, command,
                       step>>
        /\ tracking' \in BOOLEAN
        /\ Goto(p, "check")
        /\ command[p] \in {"migrate", "verify"} /\ step[p] = 1
    BY <1>4 DEF CreateMigrationTable, MigratorInv, ProcessOK
  <2>2. /\ pc'[p] = "check"
        /\ pc' \in [Process -> Label]
        /\ \A q \in Process \ {p} : pc'[q] = pc[q]
    BY <1>a, <2>1, GotoLabel DEF Label
  <2>3. ProcessOK(p)'
    BY <2>1, <2>2 DEF ProcessOK
  <2>4. LocalStep(p)
    BY <2>1, <2>2 DEF LocalStep, Complete
  <2>5. TypeOK'
    BY <1>a, <2>1, <2>2 DEF TypeOK, Label
  <2>6. RecordedComplete' /\ AllOrNothing'
    BY <2>1 DEF MigratorInv, RecordedComplete, AllOrNothing, Complete
  <2> QED
    BY <2>3, <2>4, <2>5, <2>6, OthersKeep DEF MigratorInv
<1>5. ASSUME NEW p \in Process, IsMigrationApplied(p)
      PROVE  MigratorInv'
  <2>1. /\ UNCHANGED <<database, holder, command, step>>
        /\ command[p] \in {"migrate", "verify"} /\ step[p] = 1
    BY <1>5 DEF IsMigrationApplied, MigratorInv, ProcessOK
  <2>2. \/ Goto(p, "execute")
        \/ Complete /\ command[p] = "verify" /\ Goto(p, "verify")
        \/ Complete /\ command[p] = "migrate" /\ Goto(p, "ok")
    BY <1>5, <2>1
       DEF IsMigrationApplied, Migrated, MigratorInv, RecordedComplete
  <2>3. PICK label \in {"execute", "verify", "ok"} :
           /\ Goto(p, label)
           /\ label = "verify" => Complete /\ command[p] = "verify"
           /\ label = "ok" => Complete /\ command[p] = "migrate"
    BY <2>2
  <2>4. label \in Label /\ pc'[p] = label
    BY <1>a, <2>3, GotoLabel DEF Label, Ended
  <2>5. Complete => Complete'
    BY <2>1 DEF Complete, database
  <2>6. ProcessOK(p)'
    BY <2>1, <2>3, <2>4, <2>5, YearAssumption DEF ProcessOK
  <2> QED
    BY <1>a, <2>1, <2>3, <2>4, <2>6, LocalInv DEF TypeOK
<1>6. ASSUME NEW p \in Process, ExecuteSchema(p)
      PROVE  MigratorInv'
  <2>1. /\ UNCHANGED <<database, command, step>>
        /\ command[p] \in {"migrate", "verify"} /\ step[p] = 1
    BY <1>6 DEF ExecuteSchema, MigratorInv, ProcessOK
  <2>2. PICK label \in {"record", "failed"} : Goto(p, label)
    BY <1>6 DEF ExecuteSchema
  <2>3. holder' \in Process \cup {Nobody}
    BY <1>a, <1>6 DEF ExecuteSchema, TypeOK
  <2>4. label \in Label /\ pc'[p] = label
    BY <1>a, <2>2, GotoLabel DEF Label, Ended
  <2>5. ProcessOK(p)'
    BY <2>1, <2>2, <2>4 DEF ProcessOK
  <2> QED
    BY <1>a, <2>1, <2>2, <2>3, <2>4, <2>5, LocalInv
<1>7. ASSUME NEW p \in Process, RecordMigration(p)
      PROVE  MigratorInv'
  <2>1. /\ UNCHANGED <<database, holder, command, step>>
        /\ command[p] \in {"migrate", "verify"} /\ step[p] = 1
        /\ Goto(p, "commit")
    BY <1>7 DEF RecordMigration, MigratorInv, ProcessOK
  <2>2. "commit" \in Label /\ pc'[p] = "commit"
    BY <1>a, <2>1, GotoLabel DEF Label
  <2>3. ProcessOK(p)'
    BY <2>1, <2>2 DEF ProcessOK
  <2> QED
    BY <1>a, <2>1, <2>2, <2>3, LocalInv DEF TypeOK
<1>8. ASSUME NEW p \in Process, Commit(p)
      PROVE  MigratorInv'
  <2>1. /\ applied' = 8
        /\ partitions' = partitions \cup SchemaPartition
        /\ recorded' = recorded \cup {"initial_schema"}
        /\ holder' = Nobody
        /\ UNCHANGED <<byHand, tracking, command, step>>
        /\ command[p] \in {"migrate", "verify"} /\ step[p] = 1
    BY <1>8 DEF Commit, MigratorInv, ProcessOK
  <2>2. Complete'
    BY <2>1 DEF Complete
  <2>3. \/ Goto(p, "failed")
        \/ command[p] = "verify" /\ Goto(p, "verify")
        \/ command[p] = "migrate" /\ Goto(p, "ok")
    BY <1>8, <2>1 DEF Commit, Migrated
  <2>4. /\ pc' \in [Process -> Label]
        /\ \A q \in Process \ {p} : pc'[q] = pc[q]
        /\ \/ pc'[p] = "failed"
           \/ command[p] = "verify" /\ pc'[p] = "verify"
           \/ command[p] = "migrate" /\ pc'[p] = "ok"
    BY <1>a, <2>3, GotoLabel DEF Label, Ended
  <2>5. ProcessOK(p)'
    BY <2>1, <2>2, <2>4, YearAssumption DEF ProcessOK
  <2>6. LocalStep(p)
    BY <2>1, <2>2, <2>4 DEF LocalStep
  <2>7. partitions' \subseteq Partition
    BY <1>a, <2>1, SchemaPartitionAssumption DEF TypeOK
  <2>8. byHand' \in 0..applied' /\ applied' \in 0..Len(Schema)
    BY <1>a, <2>1 DEF TypeOK
  <2>9. TypeOK'
    BY <1>a, <2>1, <2>4, <2>7, <2>8 DEF TypeOK, Label
  <2>10. RecordedComplete' /\ AllOrNothing'
    BY <2>1, <2>2, YearAssumption
       DEF MigratorInv, RecordedComplete, AllOrNothing
  <2> QED
    BY <2>5, <2>6, <2>9, <2>10, OthersKeep DEF MigratorInv
<1>9. ASSUME NEW p \in Process, Verify(p)
      PROVE  MigratorInv'
  <2>1. /\ UNCHANGED <<database, holder, command>>
        /\ command[p] = "verify" /\ Complete
        /\ step[p] \in 1..5
    BY <1>a, <1>9 DEF Verify, MigratorInv, ProcessOK
  <2>2. Checks[step[p]] \in Exists
    BY <2>1, CompleteExists
  <2>3. \/ /\ step[p] < 5
           /\ step' = [step EXCEPT ![p] = @ + 1]
           /\ UNCHANGED pc
        \/ Goto(p, "ok") /\ UNCHANGED step
    BY <1>9, <2>2 DEF Verify
  <2>4. step' \in [Process -> 1..5] /\ \A q \in Process \ {p} : step'[q] = step[q]
    BY <1>a, <2>1, <2>3
  <2>5. PICK label \in {"verify", "ok"} : Goto(p, label)
    BY <1>a, <1>9, <2>3 DEF Verify, Goto
  <2>6. label \in Label /\ pc'[p] = label
    BY <1>a, <2>5, GotoLabel DEF Label, Ended
  <2>7. Complete'
    BY <2>1 DEF Complete, database
  <2>8. ProcessOK(p)'
    BY <2>1, <2>5, <2>6, <2>7, YearAssumption DEF ProcessOK
  <2> QED
    BY <1>a, <2>1, <2>4, <2>5, <2>6, <2>8, LocalInv DEF TypeOK
<1>10. ASSUME NEW p \in Process, CreatePartition(p)
       PROVE  MigratorInv'
  <2>1. /\ UNCHANGED <<applied, byHand, tracking, recorded, holder, command>>
        /\ command[p] \in Year
        /\ step[p] \in Quarter
        /\ \A q \in Quarter : q < step[p] => <<command[p], q>> \in partitions
    BY <1>10 DEF CreatePartition, MigratorInv, ProcessOK
  <2>2. CASE "audit_log" \notin Exists
    <3>1. Goto(p, "failed") /\ UNCHANGED <<partitions, step>>
      BY <1>10, <2>2 DEF CreatePartition
    <3>2. "failed" \in Label /\ pc'[p] = "failed"
      BY <1>a, <3>1, GotoLabel DEF Label, Ended
    <3>3. ProcessOK(p)'
      BY <3>2 DEF ProcessOK
    <3> QED
      BY <1>a, <2>1, <3>1, <3>2, <3>3, LocalInv DEF TypeOK, database
  <2>3. CASE "audit_log" \in Exists
    <3>1. partitions' = partitions \cup {<<command[p], step[p]>>}
      BY <1>10, <2>3 DEF CreatePartition
    <3>2. partitions' \subseteq Partition
      BY <1>a, <2>1, <3>1 DEF TypeOK, Partition
    <3>3. \A q \in Quarter : q < step[p] + 1 => <<command[p], q>> \in partitions'
      BY <2>1, <3>1 DEF Quarter
    <3>4. /\ pc' \in [Process -> Label]
          /\ step' \in [Process -> 1..5]
          /\ \A q \in Process \ {p} : pc'[q] = pc[q] /\ step'[q] = step[q]
          /\ \/ pc'[p] = "partition" /\ step[p] < 4 /\ step'[p] = step[p] + 1
             \/ pc'[p] = "is_recorded" /\ step[p] = 4
      <4>1. CASE step[p] < 4
        BY <1>a, <1>10, <2>1, <2>3, <4>1 DEF CreatePartition, Quarter
      <4>2. CASE ~(step[p] < 4)
        <5>1. Goto(p, "is_recorded") /\ UNCHANGED step
          BY <1>10, <2>3, <4>2 DEF CreatePartition
        <5> QED
          BY <1>a, <2>1, <4>2, <5>1, GotoLabel DEF Label, Quarter
      <4> QED
        BY <4>1, <4>2
    <3>5. ProcessOK(p)'
      <4>1. CASE pc'[p] = "partition"
        BY <2>1, <3>3, <3>4, <4>1 DEF ProcessOK, Quarter
      <4>2. CASE pc'[p] = "is_recorded"
        <5>1. {command[p]} \X Quarter \subseteq partitions'
          BY <3>3, <3>4, <4>2 DEF Quarter
        <5> QED
          BY <2>1, <4>2, <5>1 DEF ProcessOK, YearComplete
      <4> QED
        BY <3>4, <4>1, <4>2
    <3>6. LocalStep(p)
      BY <2>1, <3>1, <3>4 DEF LocalStep, Complete
    <3>7. TypeOK'
      BY <1>a, <2>1, <3>2, <3>4 DEF TypeOK, Label
    <3>8. RecordedComplete' /\ AllOrNothing'
      BY <2>1, <3>1 DEF MigratorInv, RecordedComplete, AllOrNothing, Complete
    <3> QED
      BY <3>5, <3>6, <3>7, <3>8, OthersKeep DEF MigratorInv
  <2> QED
    BY <2>2, <2>3
<1>11. ASSUME NEW p \in Process, IsPartitionRecorded(p)
       PROVE  MigratorInv'
  <2>1. /\ UNCHANGED <<database, holder, command, step>>
        /\ command[p] \in Year /\ YearComplete(command[p])
    BY <1>11 DEF IsPartitionRecorded, MigratorInv, ProcessOK
  <2>2. PICK label \in {"record_partition", "ok"} : Goto(p, label)
    BY <1>11 DEF IsPartitionRecorded
  <2>3. label \in Label /\ pc'[p] = label
    BY <1>a, <2>2, GotoLabel DEF Label, Ended
  <2>4. YearComplete(command[p])'
    BY <2>1 DEF YearComplete, database
  <2>5. ProcessOK(p)'
    BY <2>1, <2>2, <2>3, <2>4, YearAssumption DEF ProcessOK
  <2> QED
    BY <1>a, <2>1, <2>2, <2>3, <2>5, LocalInv DEF TypeOK
<1>12. ASSUME NEW p \in Process, RecordPartition(p)
       PROVE  MigratorInv'
  <2>1. /\ UNCHANGED <<applied, byHand, partitions, tracking, holder, command,
                       step>>
        /\ command[p] \in Year /\ YearComplete(command[p])
        /\ recorded' \in {recorded, recorded \cup {command[p]}}
        /\ Goto(p, "ok")
    BY <1>12 DEF RecordPartition, MigratorInv, ProcessOK
  <2>2. /\ pc'[p] = "ok"
        /\ pc' \in [Process -> Label]
        /\ \A q \in Process \ {p} : pc'[q] = pc[q]
    BY <1>a, <2>1, GotoLabel DEF Label, Ended
  <2>3. YearComplete(command[p])'
    BY <2>1 DEF YearComplete
  <2>4. ProcessOK(p)'
    BY <2>1, <2>2, <2>3, YearAssumption DEF ProcessOK
  <2>5. LocalStep(p)
    BY <2>1, <2>2 DEF LocalStep, Complete
  <2>6. TypeOK'
    BY <1>a, <2>1, <2>2 DEF TypeOK, Label
  <2>7. RecordedComplete' /\ AllOrNothing'
    BY <2>1, YearAssumption
       DEF MigratorInv, RecordedComplete, AllOrNothing, Complete, YearComplete
  <2> QED
    BY <2>4, <2>5, <2>6, <2>7, OthersKeep DEF MigratorInv
<1>13. CASE ApplyByHand
  <2>0. /\ applied \in 0..8 /\ byHand \in 0..applied /\ byHand < 8
        /\ byHand' = byHand + 1
        /\ applied' = IF applied < byHand' THEN byHand' ELSE applied
    BY <1>a, <1>13 DEF ApplyByHand, TypeOK
  <2>1. /\ applied' \in 0..8 /\ byHand' \in 0..applied' /\ byHand' # 0
        /\ applied = 8 => applied' = 8
        /\ UNCHANGED <<tracking, recorded, holder, command, pc, step>>
    <3>1. UNCHANGED <<tracking, recorded, holder, command, pc, step>>
      BY <1>13 DEF ApplyByHand
    <3>2. applied \in Nat /\ byHand \in Nat /\ applied <= 8 /\ byHand <= applied
      BY <2>0
    <3>3. CASE applied < byHand + 1
      BY <2>0, <3>1, <3>2, <3>3
    <3>4. CASE ~(applied < byHand + 1)
      BY <2>0, <3>1, <3>2, <3>4
    <3> QED
      BY <3>3, <3>4
  <2>2. partitions \subseteq partitions' /\ partitions' \subseteq Partition
    BY <1>a, <1>13, SchemaPartitionAssumption DEF ApplyByHand, TypeOK
  <2>3. Complete => Complete'
    BY <2>1 DEF Complete
  <2>4. TypeOK'
    BY <1>a, <2>1, <2>2 DEF TypeOK
  <2>5. RecordedComplete' /\ AllOrNothing'
    BY <2>1, <2>2, <2>3 DEF MigratorInv, RecordedComplete, AllOrNothing
  <2>6. \A y : YearComplete(y) => YearComplete(y)'
    BY <2>2 DEF YearComplete
  <2>7. \A p \in Process : ProcessOK(p)'
    BY <2>1, <2>2, <2>3, <2>6 DEF MigratorInv, ProcessOK
  <2> QED
    BY <2>4, <2>5, <2>7 DEF MigratorInv
<1>14. CASE UNCHANGED vars
  BY <1>14 DEF vars, database, MigratorInv, TypeOK, RecordedComplete,
               AllOrNothing, Complete, ProcessOK, YearComplete
<1> QED
  BY <1>1, <1>2, <1>3, <1>4, <1>5, <1>6, <1>7, <1>8, <1>9, <1>10, <1>11,
     <1>12, <1>13, <1>14 DEF Next, Run

-----------------------------------------------------------------------------
(* Theorems *)

\* Every variable keeps its type: no loop runs past its last statement.
THEOREM TypeCorrect == Spec => []TypeOK
BY InitInv, NextInv, PTL DEF Spec, MigratorInv

\* What schema_migrations tells is true, whoever is killed at whatever point
\* and whatever is executed by hand.
THEOREM RecordsTrue == Spec => []RecordedComplete
BY InitInv, NextInv, PTL DEF Spec, MigratorInv

\* Migrate leaves all of the schema and its record, or neither.
THEOREM MigrationAtomic == Spec => []AllOrNothing
BY InitInv, NextInv, PTL DEF Spec, MigratorInv

\* A process that ends with success has done what it was started for, also
\* where it found it done by others.
THEOREM SuccessesTrue == Spec => []SuccessTrue
<1>1. MigratorInv => SuccessTrue
  BY DEF MigratorInv, SuccessTrue, ProcessOK, YearComplete
<1> QED
  BY <1>1, InitInv, NextInv, PTL DEF Spec

-----------------------------------------------------------------------------
(***************************************************************************)
(* The refinement.  What MigratorInv leaves open is why of two processes   *)
(* that found the schema unapplied only one commits: the open transaction  *)
(* is that of the one process between executing and committing, and while  *)
(* it is open nothing of what it cannot repeat is there.  Beside that, the *)
(* record a process has found stays, and audit_log is never without the    *)
(* partitions of the schema.                                               *)
(***************************************************************************)

HolderInv ==
    /\ \A p \in Process : pc[p] \in {"record", "commit"} <=> holder = p
    /\ holder # Nobody => Exists \cap Once = {}

FoundInv ==
    \A p \in Process :
        \/ pc[p] = "verify"
        \/ pc[p] = "ok" /\ command[p] \in {"migrate", "verify"}
        => "initial_schema" \in recorded

PartitionInv == "audit_log" \in Exists => SchemaPartition \subseteq partitions

RefineInv == HolderInv /\ FoundInv /\ PartitionInv

LEMMA InitRefine == Init => RefineInv
<1> SUFFICES ASSUME Init
             PROVE  RefineInv
  OBVIOUS
<1>1. HolderInv
  BY NobodyAssumption DEF Init, HolderInv
<1>2. FoundInv
  BY DEF Init, FoundInv
<1>3. Exists = {}
  BY DEF Init, Exists
<1> QED
  BY <1>1, <1>2, <1>3 DEF RefineInv, PartitionInv

\* A process that neither executes, commits nor ends: the transaction and the
\* statements stay, and it is not one that holds it.
LEMMA QuietRefine ==
    ASSUME MigratorInv, RefineInv, NEW p \in Process,
           UNCHANGED <<applied, holder, command>>,
           partitions \subseteq partitions', recorded \subseteq recorded',
           \A q \in Process \ {p} : pc'[q] = pc[q],
           pc'[p] \in {"record", "commit"} <=> pc[p] \in {"record", "commit"},
           \/ pc'[p] = "verify"
           \/ pc'[p] = "ok" /\ command[p] \in {"migrate", "verify"}
           => "initial_schema" \in recorded
    PROVE  RefineInv'
<1>1. Exists' = Exists
  BY DEF Exists
<1>2. HolderInv'
  BY <1>1 DEF RefineInv, HolderInv
<1>3. FoundInv'
  BY DEF RefineInv, FoundInv
<1>4. PartitionInv'
  BY <1>1 DEF RefineInv, PartitionInv
<1> QED
  BY <1>2, <1>3, <1>4 DEF RefineInv

\* The statement executed by hand, whether or not it was there before.
LEMMA HandExecutes ==
    ASSUME TypeOK, ApplyByHand
    PROVE  /\ byHand' \in 1..8
           /\ Exists' = Exists \cup {Schema[byHand']}
           /\ partitions \subseteq partitions'
           /\ Schema[byHand'] = "audit_log" => SchemaPartition \subseteq partitions'
<1> USE SchemaLength
<1>1. /\ applied \in 0..8 /\ byHand \in 0..applied /\ byHand < 8
      /\ byHand' = byHand + 1
      /\ applied' = IF applied < byHand' THEN byHand' ELSE applied
  BY DEF ApplyByHand, TypeOK
<1>2. byHand' \in 1..8
  BY <1>1
<1>3. Exists' = Exists \cup {Schema[byHand']}
  <2>1. CASE applied < byHand + 1
    <3>1. applied = byHand /\ applied' = applied + 1
      BY <1>1, <2>1
    <3>2. 1..applied' = (1..applied) \cup {applied'}
      BY <1>1, <3>1
    <3> QED
      BY <1>1, <3>1, <3>2 DEF Exists
  <2>2. CASE ~(applied < byHand + 1)
    <3>1. applied' = applied /\ byHand' \in 1..applied
      BY <1>1, <2>2
    <3> QED
      BY <3>1 DEF Exists
  <2> QED
    BY <2>1, <2>2
<1>4. /\ partitions \subseteq partitions'
      /\ "audit_log" \in {Schema[n] : n \in 1..byHand'} =>
            SchemaPartition \subseteq partitions'
  BY DEF ApplyByHand
<1>5. Schema[byHand'] \in {Schema[n] : n \in 1..byHand'}
  BY <1>2
<1> QED
  BY <1>2, <1>3, <1>4, <1>5

LEMMA NextRefine == MigratorInv /\ RefineInv /\ [Next]_vars => RefineInv'
<1> SUFFICES ASSUME MigratorInv, RefineInv, [Next]_vars
             PROVE  RefineInv'
  OBVIOUS
<1> USE SchemaLength
<1>a. TypeOK /\ pc \in [Process -> Label]
  BY DEF MigratorInv, TypeOK, Label
<1>1. ASSUME NEW p \in Process, Start(p)
      PROVE  RefineInv'
  <2>1. PICK what \in Command :
           /\ command' = [command EXCEPT ![p] = what]
           /\ Goto(p, CASE what = "status" -> "status"
                        [] what \in Year -> "partition"
                        [] OTHER -> "table")
    BY <1>1 DEF Start
  <2>2. \A q \in Process \ {p} : command'[q] = command[q]
    BY <1>a, <2>1 DEF TypeOK
  <2>3. PICK label \in {"status", "partition", "table"} : Goto(p, label)
    BY <2>1, YearAssumption DEF Command
  <2>4. pc'[p] = label /\ \A q \in Process \ {p} : pc'[q] = pc[q]
    BY <1>a, <2>3, GotoLabel
  <2>5. UNCHANGED <<applied, partitions, recorded, holder>> /\ pc[p] = "new"
    BY <1>1 DEF Start, database
  <2>6. Exists' = Exists
    BY <2>5 DEF Exists
  <2>7. HolderInv'
    BY <2>4, <2>5, <2>6 DEF RefineInv, HolderInv
  <2>8. FoundInv'
    BY <2>2, <2>4, <2>5 DEF RefineInv, FoundInv
  <2> QED
    BY <2>5, <2>6, <2>7, <2>8 DEF RefineInv, PartitionInv
<1>2. ASSUME NEW p \in Process, Fails(p)
      PROVE  RefineInv'
  <2>1. /\ UNCHANGED <<applied, partitions, recorded, command>>
        /\ holder' = IF holder = p THEN Nobody ELSE holder
        /\ Goto(p, "failed")
    BY <1>2 DEF Fails, database
  <2>2. pc'[p] = "failed" /\ \A q \in Process \ {p} : pc'[q] = pc[q]
    BY <1>a, <2>1, GotoLabel
  <2>3. Exists' = Exists
    BY <2>1 DEF Exists
  <2>4. HolderInv'
    BY <2>1, <2>2, <2>3, NobodyAssumption DEF RefineInv, HolderInv
  <2>5. FoundInv'
    BY <2>1, <2>2 DEF RefineInv, FoundInv
  <2> QED
    BY <2>1, <2>3, <2>4, <2>5 DEF RefineInv, PartitionInv
<1>3. ASSUME NEW p \in Process, ShowStatus(p)
      PROVE  RefineInv'
  <2>1. PICK label \in {"ok", "failed"} : Goto(p, label)
    BY <1>3 DEF ShowStatus
  <2>2. /\ UNCHANGED <<database, holder, command>>
        /\ pc[p] = "status" /\ command[p] = "status"
    BY <1>3 DEF ShowStatus, MigratorInv, ProcessOK
  <2> QED
    BY <1>a, <2>1, <2>2, GotoLabel, QuietRefine DEF database
<1>4. ASSUME NEW p \in Process, CreateMigrationTable(p)
      PROVE  RefineInv'
  <2>1. /\ UNCHANGED <<applied, partitions, recorded, holder, command>>
        /\ pc[p] = "table" /\ Goto(p, "check")
    BY <1>4 DEF CreateMigrationTable
  <2> QED
    BY <1>a, <2>1, GotoLabel, QuietRefine
<1>5. ASSUME NEW p \in Process, IsMigrationApplied(p)
      PROVE  RefineInv'
  <2>1. UNCHANGED <<database, holder, command>> /\ pc[p] = "check"
    BY <1>5 DEF IsMigrationApplied
  <2>2. PICK label \in {"execute", "verify", "ok"} :
           /\ Goto(p, label)
           /\ label # "execute" => "initial_schema" \in recorded
    BY <1>5 DEF IsMigrationApplied, Migrated
  <2> QED
    BY <1>a, <2>1, <2>2, GotoLabel, QuietRefine DEF database
<1>6. ASSUME NEW p \in Process, ExecuteSchema(p)
      PROVE  RefineInv'
  <2>1. /\ UNCHANGED <<database, command>>
        /\ pc[p] = "execute" /\ holder = Nobody
    BY <1>6 DEF ExecuteSchema
  <2>2. CASE Exists \cap Once = {}
    <3>1. holder' = p /\ Goto(p, "record")
      BY <1>6, <2>2 DEF ExecuteSchema
    <3>2. pc'[p] = "record" /\ \A q \in Process \ {p} : pc'[q] = pc[q]
      BY <1>a, <3>1, GotoLabel
    <3>3. Exists' = Exists
      BY <2>1 DEF Exists, database
    <3>4. HolderInv'
      BY <2>1, <2>2, <3>1, <3>2, <3>3, NobodyAssumption DEF RefineInv, HolderInv
    <3>5. FoundInv'
      BY <2>1, <3>2 DEF RefineInv, FoundInv, database
    <3> QED
      BY <2>1, <3>3, <3>4, <3>5 DEF RefineInv, PartitionInv, database
  <2>3. CASE Exists \cap Once # {}
    <3>1. Goto(p, "failed") /\ UNCHANGED holder
      BY <1>6, <2>3 DEF ExecuteSchema
    <3> QED
      BY <1>a, <2>1, <3>1, GotoLabel, QuietRefine DEF database
  <2> QED
    BY <2>2, <2>3
<1>7. ASSUME NEW p \in Process, RecordMigration(p)
      PROVE  RefineInv'
  <2>1. /\ UNCHANGED <<database, holder, command>>
        /\ pc[p] = "record" /\ Goto(p, "commit")
    BY <1>7 DEF RecordMigration
  <2> QED
    BY <1>a, <2>1, GotoLabel, QuietRefine DEF database
<1>8. ASSUME NEW p \in Process, Commit(p)
      PROVE  RefineInv'
  <2>1. /\ partitions' = partitions \cup SchemaPartition
        /\ recorded' = recorded \cup {"initial_schema"}
        /\ holder' = Nobody
        /\ UNCHANGED command
        /\ pc[p] = "commit"
    BY <1>8 DEF Commit
  <2>2. PICK label \in {"failed", "verify", "ok"} : Goto(p, label)
    BY <1>8 DEF Commit, Migrated
  <2>3. pc'[p] = label /\ \A q \in Process \ {p} : pc'[q] = pc[q]
    BY <1>a, <2>2, GotoLabel
  <2>4. HolderInv'
    BY <2>1, <2>3, NobodyAssumption DEF RefineInv, HolderInv
  <2>5. FoundInv'
    BY <2>1 DEF FoundInv
  <2> QED
    BY <2>1, <2>4, <2>5 DEF RefineInv, PartitionInv
<1>9. ASSUME NEW p \in Process, Verify(p)
      PROVE  RefineInv'
  <2>1. UNCHANGED <<database, holder, command>> /\ pc[p] = "verify"
    BY <1>9 DEF Verify
  <2>2. PICK label \in {"verify", "ok", "missing"} : Goto(p, label)
    BY <1>a, <1>9 DEF Verify, Goto
  <2>3. "initial_schema" \in recorded
    BY <2>1 DEF RefineInv, FoundInv
  <2> QED
    BY <1>a, <2>1, <2>2, <2>3, GotoLabel, QuietRefine DEF database
<1>10. ASSUME NEW p \in Process, CreatePartition(p)
       PROVE  RefineInv'
  <2>1. /\ UNCHANGED <<applied, recorded, holder, command>>
        /\ pc[p] = "partition"
        /\ partitions \subseteq partitions'
    BY <1>10 DEF CreatePartition
  <2>2. PICK label \in {"partition", "is_recorded", "failed"} : Goto(p, label)
    BY <1>a, <1>10 DEF CreatePartition, Goto
  <2> QED
    BY <1>a, <2>1, <2>2, GotoLabel, QuietRefine
<1>11. ASSUME NEW p \in Process, IsPartitionRecorded(p) \/ RecordPartition(p)
       PROVE  RefineInv'
  <2>1. /\ UNCHANGED <<applied, partitions, holder, command>>
        /\ recorded \subseteq recorded'
        /\ pc[p] \in {"is_recorded", "record_partition"}
    BY <1>11 DEF IsPartitionRecorded, RecordPartition, database
  <2>2. PICK label \in {"record_partition", "ok"} : Goto(p, label)
    BY <1>11 DEF IsPartitionRecorded, RecordPartition
  <2>3. command[p] \notin {"migrate", "verify"}
    BY <2>1, YearAssumption DEF MigratorInv, ProcessOK
  <2> QED
    BY <1>a, <2>1, <2>2, <2>3, GotoLabel, QuietRefine
<1>12. CASE ApplyByHand
  <2>1. UNCHANGED <<recorded, holder, command, pc>> /\ holder = Nobody
    BY <1>12 DEF ApplyByHand
  <2>2. HolderInv' /\ FoundInv'
    BY <2>1 DEF RefineInv, HolderInv, FoundInv
  <2>3. ASSUME "audit_log" \in Exists'
        PROVE  SchemaPartition \subseteq partitions'
    BY <1>a, <1>12, <2>3, HandExecutes DEF RefineInv, PartitionInv
  <2> QED
    BY <2>2, <2>3 DEF RefineInv, PartitionInv
<1>13. CASE UNCHANGED vars
  BY <1>13 DEF vars, database, RefineInv, HolderInv, FoundInv, PartitionInv, Exists
<1> QED
  BY <1>1, <1>2, <1>3, <1>4, <1>5, <1>6, <1>7, <1>8, <1>9, <1>10, <1>11,
     <1>12, <1>13 DEF Next, Run

\* A complete schema has what cannot be executed again.
LEMMA CompleteOnce == Complete => Exists \cap Once # {}
<1> SUFFICES ASSUME Complete
             PROVE  "imei_info" \in Exists \cap Once
  OBVIOUS
<1>1. Schema[6] \in Exists
  BY SchemaLength DEF Complete, Exists
<1> QED
  BY <1>1 DEF Schema, Once

\* By hand the partitions come with audit_log and with nothing else.
LEMMA HandPartitions ==
    ASSUME TypeOK, PartitionInv, ApplyByHand
    PROVE  partitions' = IF Schema[byHand'] = "audit_log"
                         THEN partitions \cup SchemaPartition ELSE partitions
<1> USE SchemaLength
<1>1. byHand \in 0..applied /\ applied \in 0..8 /\ byHand' = byHand + 1
  BY DEF ApplyByHand, TypeOK
<1>2. partitions' = IF "audit_log" \in {Schema[n] : n \in 1..byHand'}
                    THEN partitions \cup SchemaPartition ELSE partitions
  BY DEF ApplyByHand
<1>3. CASE Schema[byHand'] = "audit_log"
  BY <1>1, <1>2, <1>3
<1>4. CASE /\ Schema[byHand'] # "audit_log"
           /\ "audit_log" \in {Schema[n] : n \in 1..byHand'}
  <2>1. PICK n \in 1..byHand' : Schema[n] = "audit_log"
    BY <1>4
  <2>2. n \in 1..applied
    BY <1>1, <1>4, <2>1
  <2>3. SchemaPartition \subseteq partitions
    BY <2>1, <2>2 DEF PartitionInv, Exists
  <2> QED
    BY <1>2, <1>4, <2>3
<1>5. CASE "audit_log" \notin {Schema[n] : n \in 1..byHand'}
  BY <1>1, <1>2, <1>5
<1> QED
  BY <1>3, <1>4, <1>5

\* What the abstract specification sees of the processes.
States == [p \in Process |-> Phase(pc[p])]

LEMMA Phases ==
    /\ Phase("new") = "new" /\ Phase("ok") = "ok"
    /\ Phase("failed") = "failed" /\ Phase("missing") = "failed"
    /\ \A label \in {"execute", "record", "commit"} : Phase(label) = "migrating"
    /\ \A label \in {"status", "table", "check", "verify", "partition",
                     "is_recorded", "record_partition"} : Phase(label) = "working"
BY DEF Phase

\* A process that goes on enters the phase of its new place.
LEMMA GotoEnters ==
    ASSUME TypeOK, NEW p \in Process, NEW label, Goto(p, label)
    PROVE  /\ Database!Enter(p, Phase(label))
           /\ Phase(label) = Phase(pc[p]) => States' = States
           /\ [q \in Process |-> Phase(pc[q])][p] = Phase(pc[p])
<1>1. States' = [States EXCEPT ![p] = Phase(label)]
  BY GotoLabel DEF States
<1> QED
  BY <1>1 DEF States, Database!Enter

\* The database and the phases stay.
LEMMA Stutters ==
    ASSUME UNCHANGED <<applied, partitions, recorded, command>>, States' = States
    PROVE  UNCHANGED Database!vars
BY DEF States, Exists, Database!vars

LEMMA DatabaseInit == Init => Database!Init
<1> SUFFICES ASSUME Init
             PROVE  Database!Init
  OBVIOUS
<1>1. Exists = {}
  BY DEF Init, Exists
<1>2. [p \in Process |-> Phase(pc[p])] = [p \in Process |-> "new"]
  BY Phases DEF Init
<1> QED
  BY <1>1, <1>2 DEF Init, Database!Init

LEMMA DatabaseStep ==
    MigratorInv /\ RefineInv /\ [Next]_vars => [Database!Next]_(Database!vars)
<1> SUFFICES ASSUME MigratorInv, RefineInv, [Next]_vars
             PROVE  Database!Next \/ UNCHANGED Database!vars
  OBVIOUS
<1> USE SchemaLength, Phases
<1>a. TypeOK /\ pc \in [Process -> Label]
  BY DEF MigratorInv, TypeOK, Label
<1>1. ASSUME NEW p \in Process, Start(p)
      PROVE  Database!Next
  <2>1. PICK what \in Command :
           /\ command' = [command EXCEPT ![p] = what]
           /\ Goto(p, CASE what = "status" -> "status"
                        [] what \in Year -> "partition"
                        [] OTHER -> "table")
    BY <1>1 DEF Start
  <2>2. PICK label \in {"status", "partition", "table"} : Goto(p, label)
    BY <2>1, YearAssumption DEF Command
  <2>3. UNCHANGED <<applied, partitions, recorded>> /\ pc[p] = "new"
    BY <1>1 DEF Start, database
  <2>4. Database!Ask(p, what)
    BY <1>a, <2>1, <2>2, <2>3, GotoEnters
       DEF Database!Ask, Database!database, Exists
  <2> QED
    BY <2>4 DEF Command, Database!Next
<1>2. ASSUME NEW p \in Process, Fails(p)
      PROVE  Database!Next
  <2>1. /\ UNCHANGED <<applied, partitions, recorded, command>>
        /\ Goto(p, "failed")
    BY <1>2 DEF Fails, database
  <2>2. Phase(pc[p]) \in {"working", "migrating"}
    BY <1>a, <1>2 DEF Fails, Running, Ended, Label
  <2>3. Database!Fail(p)
    BY <1>a, <2>1, <2>2, GotoEnters DEF Database!Fail, Database!database, Exists
  <2> QED
    BY <2>3 DEF Database!Next
<1>3. ASSUME NEW p \in Process, ShowStatus(p)
      PROVE  Database!Next
  <2>1. /\ UNCHANGED <<applied, partitions, recorded, command>>
        /\ pc[p] = "status" /\ command[p] = "status"
    BY <1>3 DEF ShowStatus, database, MigratorInv, ProcessOK
  <2>2. Goto(p, "ok") \/ Goto(p, "failed")
    BY <1>3 DEF ShowStatus
  <2>3. CASE Goto(p, "ok")
    <3>1. Database!Done(command[p])
      BY <2>1, YearAssumption DEF Database!Done
    <3>2. Database!Succeed(p)
      BY <1>a, <2>1, <2>3, <3>1, GotoEnters
         DEF Database!Succeed, Database!database, Exists
    <3> QED
      BY <3>2 DEF Database!Next
  <2>4. CASE Goto(p, "failed")
    <3>1. Database!Fail(p)
      BY <1>a, <2>1, <2>4, GotoEnters
         DEF Database!Fail, Database!database, Exists
    <3> QED
      BY <3>1 DEF Database!Next
  <2> QED
    BY <2>2, <2>3, <2>4
<1>4. ASSUME NEW p \in Process, CreateMigrationTable(p)
      PROVE  UNCHANGED Database!vars
  <2>1. /\ UNCHANGED <<applied, partitions, recorded, command>>
        /\ pc[p] = "table" /\ Goto(p, "check")
    BY <1>4 DEF CreateMigrationTable
  <2> QED
    BY <1>a, <2>1, GotoEnters, Stutters
<1>5. ASSUME NEW p \in Process, IsMigrationApplied(p)
      PROVE  Database!Next \/ UNCHANGED Database!vars
  <2>1. /\ UNCHANGED <<applied, partitions, recorded, command>>
        /\ pc[p] = "check" /\ command[p] \in {"migrate", "verify"}
    BY <1>5 DEF IsMigrationApplied, database, MigratorInv, ProcessOK
  <2>2. CASE "initial_schema" \notin recorded
    <3>1. Goto(p, "execute")
      BY <1>5, <2>2 DEF IsMigrationApplied
    <3>2. Database!FindUnapplied(p)
      BY <1>a, <2>1, <2>2, <3>1, GotoEnters
         DEF Database!FindUnapplied, Database!database, Exists
    <3> QED
      BY <3>2 DEF Database!Next
  <2>3. CASE "initial_schema" \in recorded /\ command[p] = "verify"
    <3>1. Goto(p, "verify")
      BY <1>5, <2>3 DEF IsMigrationApplied, Migrated
    <3> QED
      BY <1>a, <2>1, <3>1, GotoEnters, Stutters
  <2>4. CASE "initial_schema" \in recorded /\ command[p] = "migrate"
    <3>1. Goto(p, "ok")
      BY <1>5, <2>4 DEF IsMigrationApplied, Migrated
    <3>2. Database!Done(command[p])
      BY <2>4, YearAssumption DEF Database!Done
    <3>3. Database!Succeed(p)
      BY <1>a, <2>1, <3>1, <3>2, GotoEnters
         DEF Database!Succeed, Database!database, Exists
    <3> QED
      BY <3>3 DEF Database!Next
  <2> QED
    BY <2>1, <2>2, <2>3, <2>4
<1>6. ASSUME NEW p \in Process, ExecuteSchema(p)
      PROVE  Database!Next \/ UNCHANGED Database!vars
  <2>1. /\ UNCHANGED <<applied, partitions, recorded, command>>
        /\ pc[p] = "execute"
    BY <1>6 DEF ExecuteSchema, database
  <2>2. Goto(p, "record") \/ Goto(p, "failed")
    BY <1>6 DEF ExecuteSchema
  <2>3. CASE Goto(p, "record")
    BY <1>a, <2>1, <2>3, GotoEnters, Stutters
  <2>4. CASE Goto(p, "failed")
    <3>1. Database!Fail(p)
      BY <1>a, <2>1, <2>4, GotoEnters
         DEF Database!Fail, Database!database, Exists
    <3> QED
      BY <3>1 DEF Database!Next
  <2> QED
    BY <2>2, <2>3, <2>4
<1>7. ASSUME NEW p \in Process, RecordMigration(p)
      PROVE  UNCHANGED Database!vars
  <2>1. /\ UNCHANGED <<applied, partitions, recorded, command>>
        /\ pc[p] = "record" /\ Goto(p, "commit")
    BY <1>7 DEF RecordMigration, database
  <2> QED
    BY <1>a, <2>1, GotoEnters, Stutters
<1>8. ASSUME NEW p \in Process, Commit(p)
      PROVE  Database!Next
  <2>1. /\ applied' = 8
        /\ partitions' = partitions \cup SchemaPartition
        /\ recorded' = recorded \cup {"initial_schema"}
        /\ UNCHANGED command
        /\ pc[p] = "commit" /\ command[p] \in {"migrate", "verify"}
    BY <1>8 DEF Commit, MigratorInv, ProcessOK
  <2>2. Exists \cap Once = {}
    BY <2>1, NobodyAssumption DEF RefineInv, HolderInv
  <2>3. "initial_schema" \notin recorded
    BY <2>2, CompleteOnce DEF MigratorInv, RecordedComplete
  <2>4. Exists' = {Schema[n] : n \in 1..Len(Schema)}
    BY <2>1 DEF Exists
  <2>5. \/ command[p] = "migrate" /\ Goto(p, "ok")
        \/ command[p] = "verify" /\ Goto(p, "verify")
        \/ Goto(p, "failed")
    BY <1>8, <2>1 DEF Commit, Migrated
  <2>6. \/ command[p] = "migrate" /\ Database!Enter(p, "ok")
        \/ command[p] = "verify" /\ Database!Enter(p, "working")
        \/ Database!Enter(p, "failed")
    BY <1>a, <2>5, GotoEnters
  <2>7. Database!Migrate(p)
    BY <2>1, <2>2, <2>3, <2>4, <2>6, <1>a DEF Database!Migrate
  <2> QED
    BY <2>7 DEF Database!Next
<1>9. ASSUME NEW p \in Process, Verify(p)
      PROVE  Database!Next \/ UNCHANGED Database!vars
  <2>1. /\ UNCHANGED <<applied, partitions, recorded, command>>
        /\ pc[p] = "verify" /\ command[p] = "verify" /\ Complete
        /\ "initial_schema" \in recorded
        /\ step[p] \in 1..5
    BY <1>a, <1>9
       DEF Verify, database, MigratorInv, ProcessOK, RefineInv, FoundInv, TypeOK
  <2>2. Checks[step[p]] \in Exists
    BY <2>1, CompleteExists
  <2>3. UNCHANGED pc \/ Goto(p, "ok")
    BY <1>9, <2>2 DEF Verify
  <2>4. CASE UNCHANGED pc
    BY <2>1, <2>4, Stutters DEF States
  <2>5. CASE Goto(p, "ok")
    <3>1. Database!Done(command[p])
      BY <2>1, YearAssumption DEF Database!Done
    <3>2. Database!Succeed(p)
      BY <1>a, <2>1, <2>5, <3>1, GotoEnters
         DEF Database!Succeed, Database!database, Exists
    <3> QED
      BY <3>2 DEF Database!Next
  <2> QED
    BY <2>3, <2>4, <2>5
<1>10. ASSUME NEW p \in Process, CreatePartition(p)
       PROVE  Database!Next
  <2>1. /\ UNCHANGED <<applied, recorded, command>>
        /\ pc[p] = "partition" /\ command[p] \in Year /\ step[p] \in Quarter
    BY <1>10 DEF CreatePartition, MigratorInv, ProcessOK
  <2>2. CASE "audit_log" \notin Exists
    <3>1. Goto(p, "failed") /\ UNCHANGED partitions
      BY <1>10, <2>2 DEF CreatePartition
    <3>2. Database!Fail(p)
      BY <1>a, <2>1, <3>1, GotoEnters
         DEF Database!Fail, Database!database, Exists
    <3> QED
      BY <3>2 DEF Database!Next
  <2>3. CASE "audit_log" \in Exists
    <3>1. /\ partitions' = partitions \cup {<<command[p], step[p]>>}
          /\ UNCHANGED pc \/ Goto(p, "is_recorded")
      BY <1>10, <2>3 DEF CreatePartition
    <3>2. States' = States
      BY <1>a, <2>1, <3>1, GotoEnters DEF States
    <3>3. Database!AddQuarter(p, step[p])
      BY <2>1, <2>3, <3>1, <3>2 DEF States, Exists, Database!AddQuarter
    <3> QED
      BY <2>1, <3>3 DEF Quarter, Database!Quarter, Database!Next
  <2> QED
    BY <2>2, <2>3
<1>11. ASSUME NEW p \in Process, IsPartitionRecorded(p)
       PROVE  Database!Next \/ UNCHANGED Database!vars
  <2>1. /\ UNCHANGED <<applied, partitions, recorded, command>>
        /\ pc[p] = "is_recorded"
        /\ command[p] \in Year /\ YearComplete(command[p])
    BY <1>11 DEF IsPartitionRecorded, database, MigratorInv, ProcessOK
  <2>2. Goto(p, "record_partition") \/ Goto(p, "ok")
    BY <1>11 DEF IsPartitionRecorded
  <2>3. CASE Goto(p, "record_partition")
    BY <1>a, <2>1, <2>3, GotoEnters, Stutters
  <2>4. CASE Goto(p, "ok")
    <3>1. Database!Done(command[p])
      BY <2>1, YearAssumption
         DEF YearComplete, Quarter, Database!Quarter, Database!Done
    <3>2. Database!Succeed(p)
      BY <1>a, <2>1, <2>4, <3>1, GotoEnters
         DEF Database!Succeed, Database!database, Exists
    <3> QED
      BY <3>2 DEF Database!Next
  <2> QED
    BY <2>2, <2>3, <2>4
<1>12. ASSUME NEW p \in Process, RecordPartition(p)
       PROVE  Database!Next
  <2>1. /\ UNCHANGED <<applied, partitions, command>>
        /\ pc[p] = "record_partition" /\ Goto(p, "ok")
        /\ command[p] \in Year /\ YearComplete(command[p])
    BY <1>12 DEF RecordPartition, MigratorInv, ProcessOK
  <2>2. Database!Done(command[p])
    BY <2>1, YearAssumption
       DEF YearComplete, Quarter, Database!Quarter, Database!Done
  <2>3. \/ UNCHANGED recorded
        \/ recorded' = recorded \cup {command[p]}
    BY <1>12 DEF RecordPartition
  <2>4. \/ Database!Succeed(p)
        \/ Database!RecordYear(p)
    BY <1>a, <2>1, <2>2, <2>3, GotoEnters
       DEF Database!Succeed, Database!RecordYear, Database!database, Exists
  <2> QED
    BY <2>4 DEF Database!Next
<1>13. CASE ApplyByHand
  <2>1. UNCHANGED <<recorded, command, pc>>
    BY <1>13 DEF ApplyByHand
  <2>2. PICK s \in {Schema[n] : n \in 1..Len(Schema)} :
           /\ Exists' = Exists \cup {s}
           /\ partitions' = IF s = "audit_log" THEN partitions \cup SchemaPartition
                            ELSE partitions
    BY <1>a, <1>13, HandPartitions, HandExecutes DEF RefineInv
  <2>3. Database!ByHand(s)
    BY <2>1, <2>2 DEF Database!ByHand
  <2> QED
    BY <2>2, <2>3 DEF Database!Next
<1>14. CASE UNCHANGED vars
  BY <1>14, Stutters DEF vars, database, States
<1> QED
  BY <1>1, <1>2, <1>3, <1>4, <1>5, <1>6, <1>7, <1>8, <1>9, <1>10, <1>11,
     <1>12, <1>13, <1>14 DEF Next, Run

\* Migrator implements MigratedDatabase: whoever meets whom, is killed or comes
\* between by hand, the database is migrated in one step and once, and success
\* is answered only for what is there and on record.
THEOREM RefinesDatabase == Spec => ImplementsDatabase
<1>1. Init => MigratorInv /\ RefineInv /\ Database!Init
  BY InitInv, InitRefine, DatabaseInit
<1>2. MigratorInv /\ RefineInv /\ [Next]_vars => (MigratorInv /\ RefineInv)'
  BY NextInv, NextRefine
<1> QED
  BY <1>1, <1>2, DatabaseStep, PTL DEF Spec, ImplementsDatabase, Database!Spec

-----------------------------------------------------------------------------
(***************************************************************************)
(* What EveryoneEnds rests on, said without fairness: every step of a      *)
(* process brings it nearer to its end, no step of another takes it        *)
(* farther away, and the only one it waits for waits for nobody.           *)
(***************************************************************************)

\* A bound on the steps from a place and the n-th statement or check of its loop.
StepsFrom(label, n) ==
    CASE label = "new"                     -> 20
      [] label = "table"                   -> 14
      [] label = "check"                   -> 13
      [] label = "execute"                 -> 12
      [] label = "record"                  -> 11
      [] label = "commit"                  -> 10
      [] label \in {"verify", "partition"} -> 7 - n
      [] label = "is_recorded"             -> 2
      [] label \in {"record_partition", "status"} -> 1
      [] OTHER                             -> 0

Remaining(p) == StepsFrom(pc[p], step[p])

LEMMA StepsFromPlaces ==
    ASSUME NEW n \in 1..5
    PROVE  /\ StepsFrom("new", n) = 20 /\ StepsFrom("table", n) = 14
           /\ StepsFrom("check", n) = 13 /\ StepsFrom("execute", n) = 12
           /\ StepsFrom("record", n) = 11 /\ StepsFrom("commit", n) = 10
           /\ StepsFrom("verify", n) = 7 - n /\ StepsFrom("partition", n) = 7 - n
           /\ StepsFrom("is_recorded", n) = 2 /\ StepsFrom("status", n) = 1
           /\ StepsFrom("record_partition", n) = 1
           /\ StepsFrom("ok", n) = 0 /\ StepsFrom("failed", n) = 0
           /\ StepsFrom("missing", n) = 0
BY DEF StepsFrom

\* A process that goes on takes no other along.
LEMMA OthersStay ==
    ASSUME TypeOK, NEW p \in Process, NEW q \in Process, q # p, NEW label, NEW n,
           pc' = [pc EXCEPT ![p] = label] \/ UNCHANGED pc,
           step' = [step EXCEPT ![p] = n] \/ UNCHANGED step
    PROVE  Remaining(q)' = Remaining(q)
BY DEF TypeOK, Remaining

\* A running process has a step to take, or more.
LEMMA RunningRemains ==
    ASSUME TypeOK, NEW p \in Process
    PROVE  /\ Remaining(p) \in Nat
           /\ Running(p) => Remaining(p) > 0
<1>1. step[p] \in 1..5 /\ pc[p] \in Label
  BY DEF TypeOK, Label
<1> QED
  BY <1>1, StepsFromPlaces DEF Remaining, Running, Ended, Label

\* Each of its own steps brings a process nearer to its end.
LEMMA RunNearer ==
    ASSUME MigratorInv, NEW p \in Process, Start(p) \/ Run(p) \/ Fails(p)
    PROVE  /\ Remaining(p)' < Remaining(p)
           /\ \A q \in Process : q # p => Remaining(q)' = Remaining(q)
<1>a. TypeOK /\ pc \in [Process -> Label] /\ step \in [Process -> 1..5]
  BY DEF MigratorInv, TypeOK, Label
<1>b. step[p] \in 1..5 /\ Remaining(p) = StepsFrom(pc[p], step[p])
  BY <1>a DEF Remaining
<1>c. \A label : Goto(p, label) => pc' = [pc EXCEPT ![p] = label] /\ pc'[p] = label
  BY <1>a DEF Goto
<1>d. Remaining(p)' = StepsFrom(pc'[p], step'[p])
  BY DEF Remaining
<1> USE StepsFromPlaces
<1>1. CASE Start(p)
  <2>1. PICK label \in {"status", "partition", "table"} : Goto(p, label)
    BY <1>1 DEF Start
  <2>2. UNCHANGED step /\ pc[p] = "new"
    BY <1>1 DEF Start
  <2> QED
    BY <1>a, <1>b, <1>c, <1>d, <2>1, <2>2, OthersStay
<1>2. CASE Fails(p)
  <2>1. Goto(p, "failed") /\ UNCHANGED step /\ Running(p)
    BY <1>2 DEF Fails
  <2>2. Remaining(p) > 0
    BY <1>a, <2>1, RunningRemains
  <2> QED
    BY <1>a, <1>b, <1>c, <1>d, <2>1, <2>2, OthersStay
<1>3. CASE ShowStatus(p)
  <2>1. PICK label \in {"ok", "failed"} : Goto(p, label)
    BY <1>3 DEF ShowStatus
  <2> QED
    BY <1>a, <1>b, <1>c, <1>d, <1>3, <2>1, OthersStay DEF ShowStatus
<1>4. CASE CreateMigrationTable(p)
  BY <1>a, <1>b, <1>c, <1>d, <1>4, OthersStay DEF CreateMigrationTable
<1>5. CASE IsMigrationApplied(p)
  <2>1. PICK label \in {"verify", "ok", "execute"} : Goto(p, label)
    BY <1>5 DEF IsMigrationApplied, Migrated
  <2> QED
    BY <1>a, <1>b, <1>c, <1>d, <1>5, <2>1, OthersStay DEF IsMigrationApplied
<1>6. CASE ExecuteSchema(p)
  <2>1. PICK label \in {"record", "failed"} : Goto(p, label)
    BY <1>6 DEF ExecuteSchema
  <2> QED
    BY <1>a, <1>b, <1>c, <1>d, <1>6, <2>1, OthersStay DEF ExecuteSchema
<1>7. CASE RecordMigration(p)
  BY <1>a, <1>b, <1>c, <1>d, <1>7, OthersStay DEF RecordMigration
<1>8. CASE Commit(p)
  <2>1. PICK label \in {"verify", "ok", "failed"} : Goto(p, label)
    BY <1>8 DEF Commit, Migrated
  <2> QED
    <3>1. pc[p] = "commit" /\ UNCHANGED step
      BY <1>8 DEF Commit
    <3>2. pc'[p] = label /\ pc' = [pc EXCEPT ![p] = label] /\ step'[p] = step[p]
      BY <1>c, <2>1, <3>1
    <3>3. Remaining(p)' \in {7 - step[p], 0} /\ Remaining(p) = 10
      BY <1>b, <1>d, <2>1, <3>1, <3>2
    <3>4. \A q \in Process : q # p => Remaining(q)' = Remaining(q)
      BY <1>a, <3>1, <3>2 DEF Remaining
    <3> QED
      BY <1>b, <3>3, <3>4
<1>9. CASE Verify(p)
  <2>1. \/ Goto(p, "missing") /\ UNCHANGED step
        \/ Goto(p, "ok") /\ UNCHANGED step
        \/ /\ step[p] < 5 /\ UNCHANGED pc
           /\ step' = [step EXCEPT ![p] = step[p] + 1]
    BY <1>a, <1>9, SchemaLength DEF Verify
  <2>2. pc[p] = "verify"
    BY <1>9 DEF Verify
  <2>3. CASE Goto(p, "missing") /\ UNCHANGED step
    BY <1>a, <1>b, <1>c, <1>d, <2>2, <2>3, OthersStay
  <2>4. CASE Goto(p, "ok") /\ UNCHANGED step
    BY <1>a, <1>b, <1>c, <1>d, <2>2, <2>4, OthersStay
  <2>5. CASE /\ step[p] < 5 /\ UNCHANGED pc
             /\ step' = [step EXCEPT ![p] = step[p] + 1]
    <3>1. pc'[p] = pc[p] /\ step'[p] = step[p] + 1 /\ step'[p] \in 1..5
      BY <1>a, <1>b, <2>5
    <3>2. Remaining(p) = 7 - step[p] /\ Remaining(p)' = 7 - step'[p]
      BY <1>b, <1>d, <2>2, <3>1
    <3>3. \A q \in Process : q # p => Remaining(q)' = Remaining(q)
      BY <1>a, <2>5, OthersStay
    <3> QED
      BY <1>b, <3>1, <3>2, <3>3
  <2> QED
    BY <2>1, <2>3, <2>4, <2>5
<1>10. CASE CreatePartition(p)
  <2>1. \/ Goto(p, "failed") /\ UNCHANGED step
        \/ Goto(p, "is_recorded") /\ UNCHANGED step /\ ~(step[p] < 4)
        \/ /\ step[p] < 4 /\ UNCHANGED pc
           /\ step' = [step EXCEPT ![p] = step[p] + 1]
    BY <1>a, <1>10 DEF CreatePartition
  <2>2. pc[p] = "partition" /\ step[p] \in Quarter
    BY <1>10 DEF CreatePartition, MigratorInv, ProcessOK
  <2>3. CASE Goto(p, "failed") /\ UNCHANGED step
    BY <1>a, <1>b, <1>c, <1>d, <2>2, <2>3, OthersStay
  <2>4. CASE Goto(p, "is_recorded") /\ UNCHANGED step /\ ~(step[p] < 4)
    BY <1>a, <1>b, <1>c, <1>d, <2>2, <2>4, OthersStay DEF Quarter
  <2>5. CASE /\ step[p] < 4 /\ UNCHANGED pc
             /\ step' = [step EXCEPT ![p] = step[p] + 1]
    <3>1. pc'[p] = pc[p] /\ step'[p] = step[p] + 1 /\ step'[p] \in 1..5
      BY <1>a, <1>b, <2>5
    <3>2. Remaining(p) = 7 - step[p] /\ Remaining(p)' = 7 - step'[p]
      BY <1>b, <1>d, <2>2, <3>1
    <3>3. \A q \in Process : q # p => Remaining(q)' = Remaining(q)
      BY <1>a, <2>5, OthersStay
    <3> QED
      BY <1>b, <3>1, <3>2, <3>3
  <2> QED
    BY <2>1, <2>3, <2>4, <2>5
<1>11. CASE IsPartitionRecorded(p)
  <2>1. PICK label \in {"record_partition", "ok"} : Goto(p, label)
    BY <1>11 DEF IsPartitionRecorded
  <2> QED
    BY <1>a, <1>b, <1>c, <1>d, <1>11, <2>1, OthersStay DEF IsPartitionRecorded
<1>12. CASE RecordPartition(p)
  BY <1>a, <1>b, <1>c, <1>d, <1>12, OthersStay DEF RecordPartition
<1> QED
  BY <1>1, <1>2, <1>3, <1>4, <1>5, <1>6, <1>7, <1>8, <1>9, <1>10, <1>11,
     <1>12 DEF Run

\* Every step of a process brings it nearer to its end, and nobody takes it
\* farther away.
Nearer ==
    \A p \in Process :
        /\ Start(p) \/ Run(p) \/ Fails(p) => Remaining(p)' < Remaining(p)
        /\ Remaining(p)' <= Remaining(p)

\* The only one a process waits for, which is at the schema with an open
\* transaction of another, is about to record or commit and waits for nobody.
HolderRuns ==
    holder # Nobody => holder \in Process /\ pc[holder] \in {"record", "commit"}

LEMMA StepNearer == MigratorInv /\ [Next]_vars => Nearer
<1> SUFFICES ASSUME MigratorInv, [Next]_vars, NEW p \in Process
             PROVE  /\ Start(p) \/ Run(p) \/ Fails(p) => Remaining(p)' < Remaining(p)
                    /\ Remaining(p)' <= Remaining(p)
  BY DEF Nearer
<1>a. Remaining(p) \in Nat
  BY RunningRemains DEF MigratorInv
<1>1. ASSUME Start(p) \/ Run(p) \/ Fails(p)
      PROVE  Remaining(p)' < Remaining(p)
  BY <1>1, RunNearer
<1>2. Remaining(p)' = Remaining(p) \/ Remaining(p)' < Remaining(p)
  <2>1. ASSUME NEW q \in Process, Start(q) \/ Run(q) \/ Fails(q)
        PROVE  Remaining(p)' = Remaining(p) \/ Remaining(p)' < Remaining(p)
    BY <2>1, RunNearer
  <2>2. CASE ApplyByHand
    BY <2>2 DEF ApplyByHand, Remaining
  <2>3. CASE UNCHANGED vars
    BY <2>3 DEF vars, Remaining
  <2> QED
    BY <2>1, <2>2, <2>3 DEF Next
<1>b. Remaining(p)' \in Nat
  <2>1. TypeOK'
    BY NextInv DEF MigratorInv
  <2>2. step'[p] \in 1..5 /\ pc'[p] \in Label
    BY <2>1 DEF TypeOK, Label
  <2> QED
    BY <2>2, StepsFromPlaces DEF Remaining, Label, Ended
<1> QED
  BY <1>1, <1>2, <1>a, <1>b

LEMMA HolderGoesOn == MigratorInv /\ RefineInv => HolderRuns
BY DEF MigratorInv, TypeOK, RefineInv, HolderInv, HolderRuns

\* No process goes round in circles: each takes at most twenty steps, whatever
\* others do, and waits only for one that can go on or be killed.
THEOREM StepsRunOut == Spec => [][Nearer]_vars /\ []HolderRuns
<1>1. Init => MigratorInv /\ RefineInv
  BY InitInv, InitRefine
<1>2. MigratorInv /\ RefineInv /\ [Next]_vars => (MigratorInv /\ RefineInv)'
  BY NextInv, NextRefine
<1> QED
  BY <1>1, <1>2, StepNearer, HolderGoesOn, PTL DEF Spec

=============================================================================
