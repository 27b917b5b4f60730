--------------------------- MODULE MigratedDatabase ---------------------------
(***************************************************************************)
(* What cmd/migrate promises of a database that several processes migrate  *)
(* and somebody else changes by hand: the schema comes with its record in  *)
(* one step, once, and never onto what it cannot be executed on; a year is *)
(* recorded with all its quarters; each process answers once, and success  *)
(* only if what it was asked for is there.                                 *)
(***************************************************************************)
EXTENDS Naturals

CONSTANTS
    Process,
    Year,
    Statement,         \* the statements of the schema
    Once,              \* those that cannot be repeated
    SchemaPartition    \* the partitions of audit_log that come with it

Quarter == 1..4

VARIABLES
    exists,       \* the statements that have been executed
    partitions,   \* the partitions of audit_log
    recorded,     \* the migrations on record
    asked,        \* what each process is to do
    state         \* how far each process is: "new", "working",
                  \* "migrating", "ok" or "failed"

vars == <<exists, partitions, recorded, asked, state>>
database == <<exists, partitions, recorded>>

Init ==
    /\ exists = {}
    /\ partitions = {}
    /\ recorded = {}
    /\ asked = [p \in Process |-> "migrate"]
    /\ state = [p \in Process |-> "new"]

Enter(p, s) == state' = [state EXCEPT ![p] = s]

Ask(p, what) ==
    /\ state[p] = "new"
    /\ asked' = [asked EXCEPT ![p] = what]
    /\ Enter(p, "working")
    /\ UNCHANGED database

\* The process finds that the schema is not recorded.
FindUnapplied(p) ==
    /\ state[p] = "working"
    /\ asked[p] \in {"migrate", "verify"}
    /\ "initial_schema" \notin recorded
    /\ Enter(p, "migrating")
    /\ UNCHANGED <<database, asked>>

\* Of the processes that found so, one migrates the database.
Migrate(p) ==
    /\ state[p] = "migrating"
    /\ "initial_schema" \notin recorded
    /\ exists \cap Once = {}
    /\ exists' = Statement
    /\ partitions' = partitions \cup SchemaPartition
    /\ recorded' = recorded \cup {"initial_schema"}
    /\ \/ asked[p] = "migrate" /\ Enter(p, "ok")
       \/ asked[p] = "verify" /\ Enter(p, "working")
       \/ Enter(p, "failed")
    /\ UNCHANGED asked

AddQuarter(p, q) ==
    /\ state[p] = "working"
    /\ asked[p] \in Year
    /\ "audit_log" \in exists
    /\ partitions' = partitions \cup {<<asked[p], q>>}
    /\ UNCHANGED <<exists, recorded, asked, state>>

Done(what) ==
    /\ what \in {"migrate", "verify"} => "initial_schema" \in recorded
    /\ what \in Year => {what} \X Quarter \subseteq partitions

Succeed(p) ==
    /\ state[p] = "working"
    /\ Done(asked[p])
    /\ Enter(p, "ok")
    /\ UNCHANGED <<database, asked>>

RecordYear(p) ==
    /\ state[p] = "working"
    /\ asked[p] \in Year
    /\ Done(asked[p])
    /\ recorded' = recorded \cup {asked[p]}
    /\ Enter(p, "ok")
    /\ UNCHANGED <<exists, partitions, asked>>

Fail(p) ==
    /\ state[p] \in {"working", "migrating"}
    /\ Enter(p, "failed")
    /\ UNCHANGED <<database, asked>>

ByHand(s) ==
    /\ exists' = exists \cup {s}
    /\ partitions' = IF s = "audit_log" THEN partitions \cup SchemaPartition
                     ELSE partitions
    /\ UNCHANGED <<recorded, asked, state>>

Next ==
    \/ \E p \in Process :
          \/ \E what \in {"status", "migrate", "verify"} \cup Year : Ask(p, what)
          \/ FindUnapplied(p) \/ Migrate(p)
          \/ \E q \in Quarter : AddQuarter(p, q)
          \/ Succeed(p) \/ RecordYear(p) \/ Fail(p)
    \/ \E s \in Statement : ByHand(s)

Spec == Init /\ [][Next]_vars

=============================================================================
