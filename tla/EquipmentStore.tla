--------------------------- MODULE EquipmentStore ---------------------------
(***************************************************************************)
(* The database adapters' equipment and audit repositories, used directly  *)
(* or through BeginTransaction, by several clients, for one IMEI.          *)
(*                                                                         *)
(* internal/adapters/postgres binds a transaction's repositories to the    *)
(* transaction, and the triggers of schema_extended.sql (if installed)     *)
(* keep a history and snapshots of the equipment, of which old rows are    *)
(* purged.  internal/adapters/mongodb starts a transaction on a session    *)
(* and binds its repositories to the database: their calls are not part of *)
(* the transaction.                                                        *)
(*                                                                         *)
(* The databases are external: PostgreSQL is taken at its default level,   *)
(* READ COMMITTED, where a write waits for the transaction that wrote the  *)
(* row before, and a failed statement spoils its transaction.              *)
(***************************************************************************)
EXTENDS Naturals, Sequences, FiniteSets

CONSTANTS
    Client,        \* goroutines using the adapter
    Status,        \* equipment statuses
    Reason,        \* reasons given for them
    None,          \* no row, no client
    MaxTx,         \* bound: transactions in a behaviour
    MaxCalls       \* bound: repository calls in a behaviour

ASSUME BoundAssumption == MaxTx \in Nat /\ MaxCalls \in Nat

VARIABLES
    adapter,       \* what the factory built
    extended,      \* the triggers of schema_extended.sql are installed
    committed,     \* the store as everybody sees it
    writer,        \* client whose open transaction wrote the row, or None
    working,       \* the store as the writer sees it
    purged,        \* numbers of the history rows and snapshots deleted since
    audits,        \* what the audit log got, as everybody saw it
    logging,       \* audits of each client's open transaction
    tx,            \* each client's transaction, 0 for none
    began,         \* the time at which it began
    spoiled,       \* clients in a transaction a statement of which failed
    done,          \* transaction -> what its calls have done with success
    outcome,       \* transaction -> how it ended
    calls          \* number of repository calls so far

vars == <<adapter, extended, committed, writer, working, purged, audits, logging,
          tx, began, spoiled, done, outcome, calls>>

Tx == 1..MaxTx
Content == [status : Status, reason : Reason]

\* Equipment: what is asked for it, and how often it was checked.
Equipment == [content : Content, check_count : 0..MaxCalls]

ASSUME NoneAssumption == None \notin Client \cup Content \cup Equipment

\* A row of equipment_history; previous is None for a CREATE.
Change == [type : {"CREATE", "UPDATE"}, previous : Content \cup {None},
           new : Content, at : Nat]

\* A row of equipment_snapshots.
Taken == [status : Status, at : Nat]

\* history and snapshots: the rows ever written, in that order.  checks counts
\* the increments the row has seen, by the transactions that wrote it: both
\* only for the properties.
Store == [row : Equipment \cup {None}, history : Seq(Change),
          snapshots : Seq(Taken), checks : 0..MaxCalls, by : SUBSET Tx]

Init ==
    /\ adapter \in {"postgres", "mongodb"}
    /\ extended \in BOOLEAN
    /\ adapter = "mongodb" => ~extended
    /\ committed = [row |-> None, history |-> <<>>, snapshots |-> <<>>,
                    checks |-> 0, by |-> {}]
    /\ writer = None
    /\ working = committed
    /\ purged = [history |-> {}, snapshots |-> {}]
    /\ audits = {}
    /\ logging = [c \in Client |-> {}]
    /\ tx = [c \in Client |-> 0]
    /\ began = [c \in Client |-> 0]
    /\ spoiled = {}
    /\ done = [t \in Tx |-> {}]
    /\ outcome = [t \in Tx |-> "new"]
    /\ calls = 0

-----------------------------------------------------------------------------
(* Where a call goes *)

\* Seeded fault: a transaction's repositories are bound to the database.
BoundNever(c) == FALSE

\* The client's repositories are bound to its transaction.
Bound(c) == adapter = "postgres" /\ tx[c] # 0

\* The store the client's next statement works on.
Visible(c) == IF writer = c THEN working ELSE committed

\* Time passes with the calls and the transactions.
Now == calls + Cardinality({t \in Tx : outcome[t] # "new"})

\* CURRENT_TIMESTAMP of the client's next statement: when its transaction began.
\* (That of one that waits is later here; a transaction of this one statement
\* has the time at which it was issued.)
At(c) == IF Bound(c) THEN began[c] ELSE Now + 1

\* It waits until the others' writes are over, and its own transaction is sound.
Ready(c) == /\ writer \in {None, c}
            /\ c \notin spoiled
            /\ calls < MaxCalls
            /\ calls' = calls + 1

\* A statement of the client leaves the store as s.
Execute(c, s) ==
    LET marked == [s EXCEPT !.by = @ \cup ({tx[c]} \ {0})] IN
    /\ IF Bound(c)
       THEN writer' = c /\ working' = marked /\ UNCHANGED committed
       ELSE committed' = marked /\ UNCHANGED <<writer, working>>
    /\ done' = [t \in Tx |-> IF t = tx[c] THEN done[t] \cup {"row"} ELSE done[t]]
    /\ UNCHANGED <<adapter, extended, purged, audits, logging, tx, began, spoiled,
                   outcome>>

\* A statement of the client fails, and with it its transaction.
Fails(c) ==
    /\ spoiled' = IF Bound(c) THEN spoiled \cup {c} ELSE spoiled
    /\ UNCHANGED <<adapter, extended, committed, writer, working, purged, audits,
                   logging, tx, began, done, outcome>>

-----------------------------------------------------------------------------
(* The triggers of schema_extended.sql *)

\* Seeded fault: a change of the reason alone is not recorded.
RecordedOfStatus(s, type, previous, new, at) ==
    IF extended /\ (previous = None \/ previous.status # new.status)
    THEN [s EXCEPT !.history =
             Append(@, [type |-> type, previous |-> previous, new |-> new, at |-> at])]
    ELSE s

\* record_equipment_change, of an INSERT or an UPDATE.
Recorded(s, type, previous, new, at) ==
    IF extended /\ previous # new
    THEN [s EXCEPT !.history =
             Append(@, [type |-> type, previous |-> previous, new |-> new, at |-> at])]
    ELSE s

\* Seeded faults: every update makes a snapshot; it has the wrong column.
SnapshotAlways(s, old, new, at) ==
    IF extended THEN [s EXCEPT !.snapshots = Append(@, [status |-> old.status, at |-> at])]
    ELSE s
SnapshotOfReason(s, old, new, at) ==
    IF extended THEN [s EXCEPT !.snapshots = Append(@, [status |-> old.reason, at |-> at])]
    ELSE s

\* create_equipment_snapshot_before_update.
Snapshot(s, old, new, at) ==
    IF extended /\ old.status # new.status
    THEN [s EXCEPT !.snapshots = Append(@, [status |-> old.status, at |-> at])]
    ELSE s

-----------------------------------------------------------------------------
(* Repository calls *)

Create(c, content) ==
    /\ Ready(c)
    /\ Visible(c).row = None
    /\ Execute(c, Recorded(
          [Visible(c) EXCEPT !.row = [content |-> content, check_count |-> 0],
                             !.checks = 0],
          "CREATE", None, content, At(c)))

\* Create of an IMEI on record, which is unique in both databases.  MongoDB's
\* looks first and answers ErrAlreadyExists, as it does when that was too early.
CreateDuplicate(c) ==
    /\ Ready(c)
    /\ Visible(c).row # None
    /\ Fails(c)

\* Seeded fault: the caller's copy of the counter is written back.
UpdateCounter(c, content) ==
    /\ Ready(c)
    /\ \E count \in 0..MaxCalls :
          LET s == Visible(c) IN
          IF s.row = None THEN Fails(c)
          ELSE Execute(c, Recorded(
                  Snapshot([s EXCEPT !.row = [content |-> content,
                                              check_count |-> count]],
                           s.row.content, content, At(c)),
                  "UPDATE", s.row.content, content, At(c)))

\* Update: ErrNotFound, which is no failure of the statement, or the columns
\* the caller gives; the counter is none of them.
Update(c, content) ==
    LET s == Visible(c) IN
    /\ Ready(c)
    /\ s.row # None
    /\ Execute(c, Recorded(
          Snapshot([s EXCEPT !.row.content = content],
                   s.row.content, content, At(c)),
          "UPDATE", s.row.content, content, At(c)))

\* Delete: the history of deleted equipment may not stay, but the trigger adds
\* to it after the row is gone, and the statement fails.
Delete(c) ==
    /\ Ready(c)
    /\ Visible(c).row # None
    /\ IF extended THEN Fails(c)
       ELSE Execute(c, [Visible(c) EXCEPT !.row = None, !.checks = 0])

\* IncrementCheckCount, of PostgreSQL: increment_equipment_check_count.
IncrementCheckCount(c) ==
    /\ adapter = "postgres"
    /\ Ready(c)
    /\ Visible(c).row # None
    /\ Execute(c, [Visible(c) EXCEPT !.row.check_count = @ + 1, !.checks = @ + 1])

\* IncrementCheckCount, of MongoDB, counts in the field check_count, but
\* Equipment.CheckCount is stored and loaded as checkcount: no reader sees it.
IncrementOtherField(c) ==
    /\ adapter = "mongodb"
    /\ Ready(c)
    /\ Visible(c).row # None
    /\ Execute(c, [Visible(c) EXCEPT !.checks = @ + 1])

\* A call that finds no row, and waits for nobody: nothing changes.
FindNothing(c) ==
    /\ c \notin spoiled
    /\ calls < MaxCalls
    /\ calls' = calls + 1
    /\ Visible(c).row = None
    /\ UNCHANGED <<adapter, extended, committed, writer, working, purged, audits,
                   logging, tx, began, spoiled, done, outcome>>

\* LogCheck of the audit repository.
LogCheck(c) ==
    /\ c \notin spoiled
    /\ calls < MaxCalls
    /\ calls' = calls + 1
    /\ IF Bound(c)
       THEN logging' = [logging EXCEPT ![c] = @ \cup {tx[c]}] /\ UNCHANGED audits
       ELSE audits' = audits \cup {tx[c]} /\ UNCHANGED logging
    /\ done' = [t \in Tx |-> IF t = tx[c] THEN done[t] \cup {"audit"} ELSE done[t]]
    /\ UNCHANGED <<adapter, extended, committed, writer, working, purged, tx,
                   began, spoiled, outcome>>

\* Any call may fail: a lost connection, a value the schema refuses, a check
\* time past the last partition of audit_log.
CallFails(c) ==
    /\ c \notin spoiled
    /\ calls < MaxCalls
    /\ calls' = calls + 1
    /\ Fails(c)

-----------------------------------------------------------------------------
(* Purges, which are never part of a transaction and wait for none *)

\* The rows with a time before the cutoff.
Older(rows, cutoff) == {n \in DOMAIN rows : rows[n].at < cutoff}

\* Of history nobody has committed yet nothing is deleted.
PurgeOldHistory ==
    /\ calls < MaxCalls
    /\ calls' = calls + 1
    /\ \E cutoff \in 1..(Now + 1) :
          purged' = [purged EXCEPT !.history = @ \cup Older(committed.history, cutoff)]
    /\ UNCHANGED <<adapter, extended, committed, writer, working, audits, logging,
                   tx, began, spoiled, done, outcome>>

DeleteOldSnapshots ==
    /\ calls < MaxCalls
    /\ calls' = calls + 1
    /\ \E cutoff \in 1..(Now + 1) :
          purged' = [purged EXCEPT !.snapshots = @ \cup Older(committed.snapshots, cutoff)]
    /\ UNCHANGED <<adapter, extended, committed, writer, working, audits, logging,
                   tx, began, spoiled, done, outcome>>

-----------------------------------------------------------------------------
(* Transactions *)

BeginTransaction(c) ==
    /\ tx[c] = 0
    /\ \E t \in Tx :
          /\ outcome[t] = "new"
          /\ \A u \in 1..(t - 1) : outcome[u] # "new"
          /\ outcome' = [outcome EXCEPT ![t] = "open"]
          /\ tx' = [tx EXCEPT ![c] = t]
    /\ began' = [began EXCEPT ![c] = Now + 1]
    /\ UNCHANGED <<adapter, extended, committed, writer, working, purged, audits,
                   logging, spoiled, done, calls>>

\* The client's transaction ends: how, and whether what it did stays.
End(c, how, stays) ==
    /\ tx[c] # 0
    /\ outcome' = [outcome EXCEPT ![tx[c]] = how]
    /\ tx' = [tx EXCEPT ![c] = 0]
    /\ began' = [began EXCEPT ![c] = 0]
    /\ spoiled' = spoiled \ {c}
    /\ writer' = IF writer = c THEN None ELSE writer
    /\ committed' = IF stays /\ writer = c THEN working ELSE committed
    /\ audits' = IF stays THEN audits \cup logging[c] ELSE audits
    /\ logging' = [logging EXCEPT ![c] = {}]
    /\ UNCHANGED <<adapter, extended, working, purged, done, calls>>

\* COMMIT of a spoiled transaction is a rollback and answered with an error.
Commit(c) == IF c \in spoiled THEN End(c, "rolled back", FALSE)
             ELSE End(c, "committed", TRUE)

\* The connection is lost in COMMIT: an error, whatever became of it.
CommitLost(c) == /\ c \notin spoiled
                 /\ \E stays \in BOOLEAN : End(c, "unknown", stays)

Rollback(c) == End(c, "rolled back", FALSE)

-----------------------------------------------------------------------------

Next ==
    \/ \E c \in Client :
          \/ Delete(c) \/ CreateDuplicate(c)
          \/ \E content \in Content : Create(c, content) \/ Update(c, content)
          \/ IncrementCheckCount(c) \/ IncrementOtherField(c) \/ FindNothing(c)
          \/ LogCheck(c) \/ CallFails(c)
          \/ BeginTransaction(c) \/ Commit(c) \/ CommitLost(c) \/ Rollback(c)
    \/ PurgeOldHistory \/ DeleteOldSnapshots

Spec == Init /\ [][Next]_vars

-----------------------------------------------------------------------------
(* Properties *)

TypeOK ==
    /\ adapter \in {"postgres", "mongodb"}
    /\ extended \in BOOLEAN
    /\ committed \in Store
    /\ writer \in Client \cup {None}
    /\ working \in Store
    /\ purged \in [history : SUBSET Nat, snapshots : SUBSET Nat]
    /\ audits \subseteq 0..MaxTx
    /\ logging \in [Client -> SUBSET Tx]
    /\ tx \in [Client -> 0..MaxTx]
    /\ began \in [Client -> Nat]
    /\ spoiled \subseteq Client
    /\ done \in [Tx -> SUBSET {"row", "audit"}]
    /\ outcome \in [Tx -> {"new", "open", "committed", "rolled back", "unknown"}]
    /\ calls \in 0..MaxCalls

\* What everybody sees of a transaction's work.
Seen(t) == {what \in {"row", "audit"} :
               \/ what = "row" /\ t \in committed.by
               \/ what = "audit" /\ t \in audits}

\* Nothing is left of a transaction that was rolled back.
RollbackUndoes == \A t \in Tx : outcome[t] = "rolled back" => Seen(t) = {}

\* With PostgreSQL a transaction is atomic: nothing of it is seen before it is
\* committed or after it is rolled back, all its calls did when it is committed,
\* and all or nothing when nobody knows.
PostgresAtomic ==
    adapter = "postgres" =>
        /\ RollbackUndoes
        /\ \A t \in Tx :
              /\ outcome[t] \in {"new", "open"} => Seen(t) = {}
              /\ outcome[t] = "committed" => Seen(t) = done[t]
              /\ outcome[t] = "unknown" => Seen(t) \in {{}, done[t]}

\* The counter of checks has every increment of a committed call once: no
\* concurrent update writes an old value back.
CheckCountExact ==
    adapter = "postgres" /\ committed.row # None =>
        committed.row.check_count = committed.checks

\* Each change starts from what the one before led to, and the last led to the
\* row.
Chained(s) ==
    LET h == s.history IN
    /\ \A n \in 1..Len(h) : h[n].previous = IF n = 1 THEN None ELSE h[n - 1].new
    /\ h = <<>> <=> s.row = None
    /\ h # <<>> => h[Len(h)].new = s.row.content

\* No row was written after one with a later time: no transaction that overlapped
\* another wrote after it, but had begun before.
InOrder(rows) == \A m, n \in DOMAIN rows : m < n => rows[m].at <= rows[n].at

\* Where the rows are in the order of their times, the deleted are the first ones.
FirstOnes(gone, rows) == InOrder(rows) => \A n \in gone : 1..n \subseteq gone

\* The history ever written starts with the creation and is a chain to the row: no
\* change is lost, recorded twice or out of order.  And the table has the last
\* rows of it, whatever PurgeOldHistory deleted beside open transactions, unless
\* those wrote older times over newer ones.
HistoryChains ==
    extended => Chained(committed) /\ FirstOnes(purged.history, committed.history)

StatusChanges(s) ==
    {n \in 1..Len(s.history) :
        LET e == s.history[n] IN
        e.type = "UPDATE" /\ e.previous.status # e.new.status}

\* The k-th snapshot has the status before the k-th change of it.
Matched(s) ==
    /\ Len(s.snapshots) = Cardinality(StatusChanges(s))
    /\ \A n \in StatusChanges(s) :
          LET k == Cardinality({m \in StatusChanges(s) : m <= n}) IN
          /\ s.snapshots[k].status = s.history[n].previous.status
          /\ s.snapshots[k].at = s.history[n].at

\* The triggers took a snapshot of the status before each change of it, in the
\* order and with the times of the changes, and no other.  And the table has the
\* last of them, whatever DeleteOldSnapshots deleted, with the same exception.
SnapshotsMatch ==
    extended => Matched(committed) /\ FirstOnes(purged.snapshots, committed.snapshots)

=============================================================================
