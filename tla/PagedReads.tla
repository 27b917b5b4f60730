------------------------------ MODULE PagedReads ------------------------------
(***************************************************************************)
(* Reading a table page by page while others write to it: the calls of the *)
(* equipment and audit repositories that take an offset and a limit, and   *)
(* runMigration of examples/database_adapter_example.go, which copies      *)
(* equipment from PostgreSQL to MongoDB page by page.                      *)
(*                                                                         *)
(* A page is cut from an order that the store makes anew for every call:   *)
(* newest first in PostgreSQL, by a field that is mostly missing in        *)
(* MongoDB, that of a Go map for equipment in memory, that of insertion    *)
(* for audits in memory.  Rows with equal keys come in any order.          *)
(***************************************************************************)
EXTENDS Integers, FiniteSets

CONSTANTS
    Row,           \* equipment (its IMEI) or audits (their ids)
    MaxKey,        \* bound: the times and the ids that occur
    Queries,       \* the calls that are looked at, of the six below
    Limits,        \* page sizes a reader may use
    MaxOffset,     \* bound: offsets a reader asks for
    MaxEvents      \* bound: writes and restarts of the copier in a behaviour

ASSUME RowAssumption == IsFiniteSet(Row)
ASSUME QueryAssumption ==
    Queries \subseteq {"List", "ListByStatus", "GetAuditsByIMEI",
                       "GetAuditsByTimeRange", "GetAuditsByRequestSource",
                       "GetExtendedAuditsByIMEI"}
ASSUME LimitAssumption == Limits \subseteq Nat \ {0}
ASSUME BoundAssumption == {MaxKey, MaxOffset, MaxEvents} \subseteq Nat

VARIABLES
    store,         \* where the table is
    query,         \* the repository call
    rows,          \* the table: stored row -> its key and kind
    pc,            \* what the reader does next
    limit,         \* its page size
    offset,        \* how far it is
    page,          \* rows of the current page not copied yet, as they were read
    seen,          \* rows a client was given
    target,        \* MongoDB, for the copier: IMEI -> the kind it was copied as
    refused,       \* rows whose copy failed in this run
    steady,        \* rows a reader may expect to see (for the properties)
    events         \* number of writes and restarts so far

vars == <<store, query, rows, pc, limit, offset, page, seen, target, refused,
          steady, events>>

Key == 0..MaxKey

\* Equipment has the status that is asked for, or another.  An audit of
\* LogCheckExtended is another kind of document in MongoDB: AuditLog is
\* embedded in it under a name of its own, where no query looks.
Kind == {"wanted", "other"}
Record == [key : Key, kind : Kind]

Nothing == [r \in {} |-> r]

Equipment == query \in {"List", "ListByStatus"}

\* The reader is runMigration.
Copying == store = "postgres" /\ query = "List"

-----------------------------------------------------------------------------
(* What a call returns *)

\* The rows that match.  In MongoDB neither check_time nor request_source is
\* ever stored under that name.
Found == {r \in DOMAIN rows :
             /\ query \in {"ListByStatus", "GetAuditsByIMEI",
                           "GetExtendedAuditsByIMEI"} => rows[r].kind = "wanted"
             /\ query \in {"GetAuditsByTimeRange",
                           "GetAuditsByRequestSource"} => store # "mongodb"}

\* Seeded fault: oldest first.
BeforeAscending(x, y) == rows[x].key < rows[y].key

\* The order of a call: audits in memory as they were inserted, otherwise the
\* greatest key first.
Before(x, y) == IF store = "memory" /\ ~Equipment
                THEN rows[x].key < rows[y].key
                ELSE rows[x].key > rows[y].key

\* A beginning of the order: no row outside it comes before one inside.
Beginning(s) == /\ s \subseteq Found
                /\ \A x \in Found \ s, y \in s : ~Before(x, y)

\* As many rows of all as asked for, or all if there are fewer.
Amount(s, n, all) == Cardinality(s) = n \/ (s = all /\ Cardinality(s) < n)

\* The pages a call may return that skips so many rows and takes so many: the
\* order among equal keys is open.
Pages(from, size) ==
    {p \in SUBSET Found : \E skipped \in SUBSET (Found \ p) :
        /\ Beginning(skipped) /\ Beginning(skipped \cup p)
        /\ Amount(skipped, from, Found)
        /\ Amount(p, size, Found \ skipped)}

-----------------------------------------------------------------------------
(* What a reader may expect *)

\* Another row has the same key and the page does not hold the whole table.
Tied(r) == /\ limit < Cardinality(Row)
           /\ \E x \in Found \ {r} : rows[x].key = rows[r].key

\* Rows to be seen: not written since the reader started, never tied, and no
\* newer row went away or was set back behind them.
Expected(written) ==
    {r \in steady \ written :
        /\ ~Tied(r)'
        /\ \A x \in Found :
              rows[x].key > rows[r].key =>
                  x \in Found' /\ rows'[x].key > rows[r].key}

Event == events < MaxEvents /\ events' = events + 1

\* A write: the table becomes t.
Write(written, t) ==
    /\ Event
    /\ rows' = t
    /\ UNCHANGED <<store, query, pc, limit, offset, page, seen, target,
                   refused>>
    /\ steady' = Expected(written)

Stored(r, key, kind) == [x \in DOMAIN rows \cup {r} |->
                            IF x = r THEN [key |-> key, kind |-> kind]
                            ELSE rows[x]]

Without(R) == [x \in DOMAIN rows \ R |-> rows[x]]

\* The key of a row its client gives a time: last_updated or check_time.  In
\* MongoDB the field has another name, and a map has no order.
GivenKey == IF store = "postgres" THEN Key ELSE {0}

\* The key of a row an update touches.  PostgreSQL's trigger sets last_updated
\* to the start of the transaction, which may be older than what is on record;
\* MongoDB's Update sets the field by the name it is sorted by.
UpdatedKey == IF store = "memory" THEN {0} ELSE Key

-----------------------------------------------------------------------------
(* Start *)

Init ==
    /\ store \in {"memory", "postgres", "mongodb"}
    /\ query \in Queries
    /\ query \in {"GetExtendedAuditsByIMEI",
                  "GetAuditsByRequestSource"} => store # "memory"
    /\ \E R \in SUBSET Row : rows \in [R -> Record]
    /\ \A r \in DOMAIN rows :
          IF store = "memory" /\ ~Equipment
          THEN /\ rows[r].kind = "wanted"
               /\ \A x \in DOMAIN rows \ {r} : rows[x].key # rows[r].key
          ELSE /\ rows[r].key # 0 =>
                     (store = "postgres" \/ (store = "mongodb" /\ Equipment))
               /\ (~Equipment /\ store = "postgres") =>
                     rows[r].kind = "wanted"
    /\ pc = "list"
    /\ limit \in Limits
    /\ offset = 0
    /\ page = Nothing
    /\ seen = {}
    /\ target = Nothing
    /\ refused = {}
    /\ steady = {r \in Found : ~Tied(r)}
    /\ events = 0

-----------------------------------------------------------------------------
(* Writers of equipment *)

Create(r) ==
    /\ Equipment
    /\ r \notin DOMAIN rows
    /\ \E key \in GivenKey, kind \in Kind : Write({r}, Stored(r, key, kind))

Update(r) ==
    /\ Equipment
    /\ r \in DOMAIN rows
    /\ \E key \in UpdatedKey, kind \in Kind :
          Write({r}, Stored(r, key, kind))

\* IncrementCheckCount: an update to the trigger, too.
IncrementCheckCount(r) ==
    /\ Equipment
    /\ r \in DOMAIN rows
    /\ \E key \in IF store = "postgres" THEN UpdatedKey ELSE {rows[r].key} :
          Write({r}, Stored(r, key, rows[r].kind))

Delete(r) ==
    /\ Equipment
    /\ r \in DOMAIN rows
    /\ Write({r}, Without({r}))

-----------------------------------------------------------------------------
(* Writers of audits *)

\* LogCheck: the time of the check is the caller's, the id in memory is next.
LogCheck(r) ==
    /\ ~Equipment
    /\ r \notin DOMAIN rows
    /\ \E key \in IF store = "memory"
                  THEN {k \in Key : \A x \in DOMAIN rows : rows[x].key < k}
                  ELSE GivenKey :
          Write({r}, Stored(r, key, "wanted"))

\* LogCheckExtended, over a database.  PostgreSQL's logs the check and then
\* fails, as audit_log_extended cannot exist: its foreign key needs a unique
\* audit_log(id), whose key is (id, check_time).  MongoDB's stores a document
\* of another kind.
LogCheckExtended(r) ==
    /\ ~Equipment
    /\ store # "memory"
    /\ r \notin DOMAIN rows
    /\ \E key \in GivenKey :
          Write({r}, Stored(r, key, IF store = "postgres" THEN "wanted"
                                    ELSE "other"))

\* What a purge deletes: in MongoDB nothing, as there is no check_time to
\* compare.
Old(date) == {r \in DOMAIN rows : store = "postgres" /\ rows[r].key < date}

PurgeOldAudits(date) ==
    /\ ~Equipment
    /\ store # "memory"
    /\ Write(Old(date), Without(Old(date)))

-----------------------------------------------------------------------------
(* The reader *)

\* GetExtendedAuditsByIMEI joins a table PostgreSQL does not have.
Answerable == ~(store = "postgres" /\ query = "GetExtendedAuditsByIMEI")

\* A page is read.  An empty one is the end; the copier goes through others
\* row by row.
ReadPage ==
    /\ pc = "list"
    /\ offset <= MaxOffset
    /\ Answerable
    /\ \E p \in Pages(offset, limit) :
          IF p = {} THEN pc' = "ended" /\ UNCHANGED <<page, offset, seen>>
          ELSE IF Copying
          THEN /\ pc' = "copy"
               /\ page' = [r \in p |-> rows[r].kind]
               /\ UNCHANGED <<offset, seen>>
          ELSE /\ seen' = seen \cup p
               /\ offset' = offset + limit
               /\ UNCHANGED <<pc, page>>
    /\ UNCHANGED <<store, query, rows, limit, target, refused, steady, events>>

\* The call fails.  The copier stops there, and says it is complete all the same.
ReadFails ==
    /\ pc = "list"
    /\ store # "memory"
    /\ pc' = "failed"
    /\ UNCHANGED <<store, query, rows, limit, offset, page, seen, target,
                   refused, steady, events>>

\* The next row of the page.
Take(r) ==
    /\ pc = "copy"
    /\ r \in DOMAIN page
    /\ page' = [x \in DOMAIN page \ {r} |-> page[x]]
    /\ UNCHANGED <<store, query, rows, pc, limit, offset, seen, steady, events>>

Copied(r) == [x \in DOMAIN target \cup {r} |->
                 IF x = r THEN page[r] ELSE target[x]]

\* Seeded fault: a document that is there is replaced.
CopyOver(r) ==
    /\ Take(r)
    /\ target' = Copied(r)
    /\ UNCHANGED refused

\* Create in MongoDB, of the row as it was read: ErrAlreadyExists is logged.
Copy(r) ==
    /\ Take(r)
    /\ target' = IF r \in DOMAIN target THEN target ELSE Copied(r)
    /\ UNCHANGED refused

\* Any other error is logged, too, and the document may be stored all the same.
CopyFails(r) ==
    /\ Take(r)
    /\ refused' = refused \cup {r}
    /\ target' \in {target, IF r \in DOMAIN target THEN target ELSE Copied(r)}

\* Seeded fault: the rest of the page is left.
EndPageEarly ==
    /\ pc = "copy"
    /\ pc' = "list"
    /\ offset' = offset + limit
    /\ UNCHANGED <<store, query, rows, limit, page, seen, target, refused,
                   steady, events>>

EndPage ==
    /\ pc = "copy"
    /\ DOMAIN page = {}
    /\ pc' = "list"
    /\ offset' = offset + limit
    /\ UNCHANGED <<store, query, rows, limit, page, seen, target, refused,
                   steady, events>>

\* The copier, ended or killed, is started again; what it copied stays.
Restart ==
    /\ Copying
    /\ Event
    /\ pc' = "list"
    /\ offset' = 0
    /\ page' = Nothing
    /\ refused' = {}
    /\ UNCHANGED <<store, query, rows, limit, seen, target>>
    /\ steady' = {r \in Found : ~Tied(r)}

-----------------------------------------------------------------------------

Next == \/ \E r \in Row : \/ Create(r) \/ Update(r) \/ IncrementCheckCount(r)
                          \/ Delete(r) \/ LogCheck(r) \/ LogCheckExtended(r)
                          \/ Copy(r) \/ CopyFails(r)
        \/ \E date \in Key : PurgeOldAudits(date)
        \/ ReadPage \/ ReadFails \/ EndPage
        \/ Restart

Spec == Init /\ [][Next]_vars

-----------------------------------------------------------------------------
(* Properties *)

TypeOK ==
    /\ store \in {"memory", "postgres", "mongodb"}
    /\ query \in Queries
    /\ DOMAIN rows \subseteq Row /\ rows \in [DOMAIN rows -> Record]
    /\ pc \in {"list", "ended", "failed"} \/ (pc = "copy" /\ Copying)
    /\ limit \in Limits
    /\ offset \in Nat
    /\ DOMAIN page \subseteq Row /\ page \in [DOMAIN page -> Kind]
    /\ page # Nothing => pc = "copy"
    /\ DOMAIN target \subseteq Row /\ target \in [DOMAIN target -> Kind]
    /\ seen \subseteq Row /\ refused \subseteq Row
    /\ steady \subseteq Found
    /\ events \in 0..MaxEvents

\* What the reader has in the end: what the pages held, or what was copied and
\* what it said it could not copy.
Given == IF Copying THEN DOMAIN target \cup refused ELSE seen

\* A reader that comes to an empty page has every row it may expect, whatever
\* is created, checked, updated and purged meanwhile: rows written go to the
\* front, where they only push others back into pages still to come, and old
\* audits leave at the other end.
PagesComplete ==
    pc = "ended" => steady \subseteq Given

\* Copying again, after an end or a crash, replaces nothing in MongoDB, where
\* others may have written since: what was copied once stays as it was.
CopiesKept ==
    [][\A r \in DOMAIN target : r \in DOMAIN target' /\ target'[r] = target[r]]_vars

=============================================================================
