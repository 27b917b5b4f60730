# Verification of go-eir

A TLA+ model of the 5G Equipment Identity Register in this repository: modules
that describe its components, TLC configurations that check them on small
instances, and theorems about them that the TLAPS proof system checks for every
value of the constants.

The EIR answers whether a mobile device may use the network. Clients ask over
HTTP (5G, N5g-eir) and over Diameter (4G, S13), and provision IMEIs and TAC
ranges over HTTP.

## 1. Inventory

| Component | State it keeps | Operations | Hard behaviour | What makes it correct |
|---|---|---|---|---|
| TAC provisioning (`pkg/logic/tac.go`) | table of TAC ranges; each range links to an enclosing one | `InsertTac` (`ClearTacInfo`: tests only) | one request is many repository calls without a lock or a transaction: other requests and failed calls come between them | links name a stored range that encloses; a refusal has a cause; the table stays a forest of nested ranges; every request is answered |
| IMEI provisioning (`pkg/logic/imei.go`) | table: first 14 digits → colour and list of last digits; package variable `imeiCheckLength` | `InsertImei` | read, change, save; with the in-memory repository the object changed is the stored one | nobody finds an IMEI in a colour that nobody asked for; no doubles |
| Equipment checks (`CheckImei`, `CheckTac`) | none of their own: compiled-in sample tables | two checks | the answer depends on `imeiCheckLength`, on map iteration, on the interface | all interfaces answer alike; what is provisioned is what is answered |
| EIR service (`internal/domain/service`) | optional cache of equipment | `CheckImei`, `CheckTac`, `InsertImei`, `InsertTac`, `GetEquipment`, `RemoveEquipment`, `ListEquipment`, `ProvisionEquipment` | cache filled by a goroutine after the answer; failed invalidations are ignored | removed equipment is not served, or only for a known reason and for a bounded time; pages of `ListEquipment` add up to the table |
| HTTP adapter (`internal/adapters/http`) | listener | routes, `Start`, `Stop` | requests in flight at shutdown; HTTP/2 cleartext connections | status codes tell the outcome; accepted requests are answered |
| Diameter adapter (`internal/adapters/diameter`) | listener | ME-Identity-Check, `Start`, `Stop` | `Start` returns before the port is bound | same answers as HTTP |
| In-memory repositories (`internal/adapters/memory`) | maps and a slice of audits, under a lock | `Save…`, `Lookup…`, `Prev…`, `Next…`, `Create`, `Update`, `Delete`, `List…`, `LogCheck`, `GetAudits…` | return the stored object; list a Go map, in another order every time | as the database |
| PostgreSQL adapter (`internal/adapters/postgres`) | equipment, audit log, history, snapshots, TAC and IMEI tables | repositories, transactions, paged reads, purges, statistics | triggers write history and snapshots; a failed statement spoils a transaction; rows move between the pages of a reader | transactions are atomic; counter, history and snapshots agree with the row; who reads all pages has all rows |
| MongoDB adapter (`internal/adapters/mongodb`) | the same as collections | the same | the repositories of a transaction are not bound to it | the same |
| Extended audit, history, snapshots | rows of these tables | `LogCheckExtended`, purges | several tables in calls of their own | a check is logged once and completely |
| Migrator (`postgres/migrator.go`, `cmd/migrate`) | `schema_migrations` | `Migrate`, `VerifySchema`, `CreatePartitionsForYear`, `GetMigrationStatus` | two migrators; a process killed half way; partitions committed one by one; a schema made by hand | a migration and its record stay or go together; success is true |
| Database factory | none | `CreateAdapter`, `HealthCheck` | – | the chosen adapter is the configured one |
| Process (`cmd/eir`) | both servers, the governance client | start, register, shutdown | signals, failing starts, lost answers of the manager | a pod that is listed serves; a signal ends the process |
| Governance wrapper (`pkg/governance`) | one client for the process | `Initialize`, `Shutdown` | `sync.Once` after a failed registration; no program but its example uses it | registered when it says so |
| Configuration (`internal/config`, `pkg/config`) | the configuration | `Load`, `Watch` | `Watch` swaps it without synchronisation; nobody calls it | – |
| Integration containers (`test/integration/containers`): simulated DRA, Diameter gateway, EIR core | the gateway's one connection to the EIR core, under a lock | forward S13 requests and answers, `Stop` | several clients share the connection; it is used outside the lock; its test reads a byte of whatever is under way; the EIR core restarts | each client gets the answers to its own requests, in order; no connection leaks; nobody waits for the lock for ever |
| Copier (`runMigration` of `examples/database_adapter_example.go`) | its offset | copy equipment from PostgreSQL to MongoDB, page by page | others write meanwhile; it stops at an error and is started again | everything is copied or reported; nothing is copied over |
| Legacy `pkg/repository`, logger, metrics, mocks, pcap, other examples | – | – | – | – |

How they interact: `cmd/eir` builds the in-memory repositories, the service over
them (without a cache), and both adapters over the service. An adapter's handler
runs in a goroutine of its own for each request and calls the service, which
calls `pkg/logic` with the repository; `pkg/logic` makes one repository call
after the other. The database adapters offer the same repositories through
`internal/adapters/factory`, which no program of the repository uses but which
the documents present as the deployment.

The hazards of each of these, at the line where they bite, are in
`PROJECT.json`, with the properties that would catch them going wrong.

## 2. Modules

| Module | Models | Runs | Proofs |
|---|---|---|---|
| `TacRange` | keys and order of TAC ranges; when one encloses or crosses another | – | – |
| `TacRegistry` | abstract specification: a set of coloured ranges none of which equals another | – | – |
| `TacTable` | `InsertTac`, one action per repository call, over any repository | `TacTable_inserts` | `TacTableProofs` |
| `ImeiRegistry` | abstract specification: a colour and a set of ends for each start | – | – |
| `ImeiTable` | `InsertImei` over a copying or a sharing repository | `ImeiTable_inserts` | `ImeiTableProofs` |
| `EquipmentService` | provisioning and checks over all interfaces | `EquipmentService_*` | `EquipmentCacheProofs` |
| `EquipmentCache` | `GetEquipment` and `RemoveEquipment` with the cache | `EquipmentCache_removal` | `EquipmentCacheProofs` |
| `EquipmentStore` | equipment, audit, history, snapshots, their purges and the transactions of both database adapters | `EquipmentStore_*` | `EquipmentStoreProofs` |
| `PagedReads` | readers that page through equipment and audits of every repository, and the copier, while others write and purge | `PagedReads_pages` | `PagedReadsProofs` |
| `AppLifecycle` | the process from start to end | `AppLifecycle_run` | `AppLifecycleProofs` |
| `DiameterGateway` | simulated DRA, Diameter gateway and restarts of the EIR core | `DiameterGateway_*` | `DiameterGatewayProofs` |
| `MigratedDatabase` | abstract specification: a database that is migrated in one step, once | – | – |
| `Migrator` | processes of `cmd/migrate` on one database | `Migrator_run` | `MigratorProofs` |

The `MC…` modules give constants values and bound the runs. Operators called "Seeded fault" in
the modules are variants of the definition that follows them, used to show that
a property can fail; nothing else refers to them.

### TAC provisioning: `TacRange`, `TacTable`, `TacRegistry`

A TAC range is a pair of bounds over `Pos`, a small set of numbers that stands
for strings of digits: what the code does with them is to pad, order and compare
them. The table (`tacData`) maps the key of a range to its record: colour and
link. A goroutine in `InsertTac` (`pc`, and its local variables) goes through
the calls in the order of the code: `LookupHit`/`LookupMiss` (the existence
check), the backward walk (`PrevEnd`, `PrevParent`, `PrevChild`, `PrevCross`),
the forward walk, the save, and the saves of the enclosed ranges whose link
becomes the new range. Each of those reads or writes one record; anything may
happen between two of them. A failed read looks like a missing record, as the
repositories return `ok = false` for both; a failed save of the new range is
answered with an error, one of a relinked range is dropped.

`TacRegistry` is what the component promises: an accepted request adds its range
in its colour, and a range equal to or, as far as the walk sees, crossing a
stored one is refused. `TacTable` implements it until two inserts overlap or the
existence check of one fails: the variable `disturbed` remembers that they did,
and every step before is a step of the registry or leaves it alone, whichever
other calls fail. Afterwards the code promises less, and the remaining
properties (`LinkEncloses`, `RejectionJustified`, `Answered`) are stated without
that condition.

### IMEI provisioning: `ImeiTable`, `ImeiRegistry`

Records hang on objects (`heap`), so that the two kinds of repository differ in
one variable, chosen at the start: `copyOnRead` is TRUE for the databases, where
a read makes a new object, and FALSE for the in-memory repository, which hands
out the stored one. An inserter looks the start up, checks it, makes a new list
of ends, assigns it to its object and saves it; with a shared object others see
each of those steps. `ImeiTable` implements `ImeiRegistry` until inserts overlap
or a lookup fails (`disturbed`, as above).

### Checks: `EquipmentService`

`imeiCheckLength` is 0 until the first `InsertImei` of the process, and a check
reads it. The compiled-in tables are `SampleRange` and the sample IMEIs; map
iteration is a choice among the longest matches. Answers are kept for each
interface with the status code the handler gives them.

### Cache: `EquipmentCache`

A getter reads the cache, then the database, answers, and starts the fill
goroutine, which carries the row as it was read. A remover deletes the row, then
the cache entry; the error of the latter is dropped. Entries expire. The
variable `afterwards` collects the getters that began after a removal was
answered, and `excused` whether a fill was under way when the row was deleted or
an invalidation failed.

### Database adapters: `EquipmentStore`

One IMEI, several clients, both adapters (the choice of the factory is part of
the initial state). With PostgreSQL the calls of a transaction work on
`working`, which becomes `committed` with the commit; a write waits for the
transaction that wrote the row before; a failed statement spoils the
transaction. With MongoDB the calls work on `committed` at once, as
`BeginTransaction` binds the repositories to the database and not to the
session. The triggers of `schema_extended.sql` are part of each statement. The
databases themselves are external and taken at their documented defaults.

`history` and `snapshots` of a store hold every row ever written, and `purged`
the numbers of those that `PurgeOldHistory` and `DeleteOldSnapshots` have deleted
since, which are the rows committed with a time before a cutoff. The time of a
row (`at`) is that of its transaction's beginning (`began`), as
`CURRENT_TIMESTAMP` is, or of its statement outside one; `Now` passes with calls
and transactions. So a transaction that began before others' writes and writes
after them leaves an older time behind newer ones, and a purge may then delete
the newest change and leave older ones. `HistoryChains` and `SnapshotsMatch` say
two things: all that was ever written is a chain from the creation to the row,
with the snapshots that belong to it; and where the times are in order, what the
tables still have is the last part of that. What the code keeps for ever is
nothing: after a purge the history need not start with the creation.

`PurgeOldAudits` is in `PagedReads`; `audits` here is what the audit log got, with
what such a purge has deleted since. MongoDB's purges find no rows of triggers to
delete. The SQL function `cleanup_old_data` has no caller in the repository and
is not modelled: its first statement deletes from `audit_log_extended`, a table
PostgreSQL refuses to create (section 5), so that it fails before it deletes
anything. Without that it would delete snapshots as `DeleteOldSnapshots` does;
it does not touch the history.

### Pages: `PagedReads`

One table (`rows`: equipment by its IMEI, or audits by their ids) and one reader
who goes through it with one of the repository calls that take an offset and a
limit. Each row has the key it is sorted by and whether it is one the query
looks for. What the repositories do differs, and is chosen at the start with
`store` and `query`:

- PostgreSQL lists newest first, by `last_updated` or `check_time`; the trigger
  sets `last_updated` to the start of the transaction (`UpdatedKey`).
- MongoDB sorts by `last_updated`, a field that only `Update` sets: `Create`
  stores `lastupdated` (`GivenKey`). Audits are stored as `checktime` and
  `requestsource`, so that the queries for `check_time` and `request_source`
  find none, and those of `LogCheckExtended` are embedded under a name where
  queries do not look.
- In memory equipment comes in the order of a Go map, made anew by every call,
  and audits as they were inserted, whatever range of times is asked for.

`Pages` is the set of pages such a call may return: rows with equal keys come in
any order, and in another order the next time.

The copier lists a page in PostgreSQL and creates its rows one by one in
MongoDB, where an IMEI that is there already is refused. It may die at any
point and starts again at offset 0 (`Restart`). Other clients create, update,
check and delete equipment, log checks and purge audits meanwhile, in both
databases.

`steady` is what a reader may expect: the rows it found when it started and that
were not written since, have no twin in the order while its page is shorter than
the table, and before which no row disappeared or moved behind. `PagesComplete`
says that a reader who comes to an empty page has all of them. Rows that do not
satisfy these conditions are missed by the code as it is.

### Process: `AppLifecycle`

`main` goes through the steps of `cmd/eir/main.go` in order: HTTP server (its
port is bound when `Start` returns), Diameter server (a goroutine binds it
later, or panics), registration, `signal.Notify`, the wait, `Unregister`,
`Shutdown` of the HTTP server, `Stop` of the Diameter server. The manager and
the network may lose an answer after acting on the request.

### The way of a Diameter request: `DiameterGateway`

A client's requests go through the simulated DRA, which reads and writes whole
messages and keeps their order: both of its hops are one queue (`through` to
the gateway, `back` to the client), lost with the connection (`link`). For each
client a goroutine of the gateway (`pc`, `msg`) reads a request, answers CER and
DWR itself, drops what it does not know, and forwards the rest. For that it
takes `lock` and tests the connection to the EIR core (`eirConn`) with a read of
one byte for 10 ms. The outcomes are those the code distinguishes: the deadline
passes (`ProbeTimeout`: the connection is closed and another dialled), a byte
comes (`ProbeByte`: alive, and the byte is lost, so the stream is `torn`), the
end of the stream (`ProbeEOF`: alive as well), another error (`ProbeError`:
dead). Then, without the lock, it writes the request (`Write`) and reads the
header and the rest of an answer by separate calls (`ReadHead`, `ReadBody`).

Once a byte is lost, or two goroutines read one connection, the bytes a
goroutine gets are not the ones it wants (`ReadAstray`). It reads a length that
is invalid, and gives up with the bytes consumed; or one that some of the next
bytes satisfy, and forwards what it has got (`Garbage`); or one that is more than
there is, and waits for more with all of them swallowed. Which, and how much is
left (`Remainders`: a whole message, one without its beginning, or nothing),
depends on the bytes and is a choice. So the stream may be on a boundary again,
and the next to read finds a message as it was sent, possibly the answer to
another's request.

`conn` holds every connection dialled: its state, the requests the EIR core
works on and the pieces of answers under way. TCP is external: bytes of one
connection arrive in order or not at all. The EIR core answers in any order and
stops by ending its connections or resetting them.

An answer is `sound` if no test had taken a byte of the connection it was read
from. `SoundMatch` says that these answers are the client's own, and in order; it
holds because silence passes for death: a goroutine that finds the connection in
use either closes it under the other, whose request is given up, or takes a byte
and leaves it torn. `AnswersMatch` says the same of all answers, and does not
hold: on a torn connection a client may get another's answer.

### Migrations: `Migrator`, `MigratedDatabase`

Each process of `cmd/migrate` gets one command and goes through its statements
in the order of the code. `Migrate` executes `schema.sql` and writes its record
in one transaction: `holder` is the process that has executed it and not yet
committed, and others that want to execute it wait. `CreatePartitionsForYear`
has no transaction: each quarter is committed by itself, and errors of reading
or writing the record are dropped. A call may fail, or the process be killed, at
any point (`Fails`); the connection is lost and its transaction rolled back. A
commit may be made and its answer lost.

`schema.sql` is the sequence `Schema` of groups of statements; `applied` of them
are there. `ApplyByHand` executes the next by itself, as `psql -f` and the init
script of `docker-compose.yaml` do. Groups in `Once` fail if what they create
exists. PostgreSQL is external: schema changes are transactional.

`MigratedDatabase` is what the commands promise together. Of the processes that
find the schema unapplied one migrates the database, in a single step that
brings the whole schema, its partitions and its record, and only where none of
the statements that cannot be repeated was executed; the others fail. A year is
recorded with all its quarters, success needs what was asked for, and whatever
is executed by hand changes nothing else. `Migrator` implements it without
conditions: `Exists` is what exists there, and `Phase` says how far a process
is, where a process that executes, records or commits is still `"migrating"`.

## 3. Runs

| Run | Question | Result |
|---|---|---|
| `TacTable_inserts` | Two goroutines call by call, one failed call: are links sound, refusals justified, requests answered? Until inserts overlap or a lookup fails, does the linked table implement the plain registry, and is a range linked when its neighbour in key order encloses it? | holds |
| `ImeiTable_inserts` | Two inserters over a database or in memory, one failed call: is every IMEI's colour one somebody asked for? Are lists free of doubles, and does the table implement the registry of IMEIs, until inserts overlap or a lookup fails? | holds |
| `EquipmentService_checks` | Do the interfaces agree about one equipment? | holds |
| `EquipmentService_provisioned` | Does a check look at what was provisioned, as `README.md:220` of the repository ("checks database") says? | no: checks read the compiled-in tables only |
| `EquipmentCache_removal` | Is removed equipment served again only for a known reason, and not for ever? | holds |
| `EquipmentStore_transactions` | Are PostgreSQL transactions atomic, do the counter and the history and snapshots as they were written agree with the row, and do purges leave the last of both? | holds |
| `EquipmentStore_rollback` | Does a rollback undo, as `DATABASE_ADAPTER_README.md` says of both databases? | no, with MongoDB |
| `PagedReads_pages` | Has a reader of all pages, or a copier that may be started again, every row it may expect, and does a copy replace nothing? | holds |
| `AppLifecycle_run` | Does a listed pod serve, an orderly end answer, a signal end the process? | holds |
| `DiameterGateway_forward` | Up to three clients over the gateway's one connection, a restart of the EIR core: are answers read over connections no test took a byte of the client's own and in order, do these connections have one user, is every other connection closed, can the holder of the lock go on? | holds |
| `DiameterGateway_mixed` | Are all answers the client's own, as the integration documents say of hop-by-hop ids? | no: after a lost byte a client may get another's |
| `Migrator_run` | Two migrators that may be killed anywhere, and `schema.sql` by hand: is what is recorded there, is success true, does everybody end, and is all of it what `MigratedDatabase` promises? | holds |

Bounds. Every bound is a constant of its module. `MaxRequests`, `MaxCalls`,
`MaxTx` and `MaxFills` end a behaviour; they are large enough for the cases the
properties are about: three bounds make six ranges, one of them in another, one
that crosses it, and one between them that hides one from the walk to the other;
two inserters and three requests let one request pass the existence check,
another save, and a third link to either; two getters and two removers let a
fill outlive a removal and a second removal meet it; two transactions and four
calls let a transaction write twice while another waits, or a purge come between
writes of both. Two clients with three requests between them let one goroutine
test a connection while another waits for its answer, with an answer of before
still under way; one restart of the EIR core leaves a connection ended or reset.
A third client lets a goroutine test the connection two others read, or read
after both what was left. Clients are interchangeable (`MCSymmetry`), and
`MCBound` keeps the number of states down: a client that is alone may send
anything and lose its connection besides the EIR core's restart; of several only
requests to be forwarded are looked at, either with a restart or with lost
connections, and of three neither. Two migrators and two years let both apply
the schema, both create one year, or each another. `MaxFaults = 1`: one failed
call at any point, of either kind; the theorems have no such bound. The time to
live of the cache is a single expiry of an entry: how long it is plays no part
in the order of steps. Three rows and pages of one to three rows let a row be on
the page read, on the next, and pushed from one to the other by a third; three
keys let a row be written before, with and after another; two events let one
bring a row forward and one take another away, or the copier be started twice.
`MCPagedReads` starts from one table of each shape: which row has which name
plays no part.

Fairness. `TacTable` assumes that a goroutine in `InsertTac` goes on (WF of its
next call): a handler waits for nobody but the repository, and its calls return.
`EquipmentCache` assumes that time passes for an entry (WF of its expiry) and
that a fill goroutine that was started runs; nothing is assumed of clients.
`AppLifecycle` assumes that `main` and the Diameter goroutine run; it assumes
nothing of clients, signals or requests. `Migrator` assumes that a process that
was started runs and that the database answers (WF of its next step): it waits
only for another's transaction, which that process ends or loses.
`DiameterGateway` needs none: that nobody waits for the lock for ever is stated
as `LockProgress`, whoever holds it has a step it can take without anybody else.
Where `CHECK_DEADLOCK FALSE` is given, the bound on requests or the end of the
process stops the system.

What the checks do not show. `Answered` (every request is answered) holds with a
bounded number of other requests; a walk that other requests keep extending for
ever is not excluded by the code. `OrderlyAnswers` is stated for HTTP/1.1
requests: those on connections the h2c handler has taken over are cut off by an
orderly end. `CheckCountExact` is stated for PostgreSQL: with MongoDB the
counter is incremented in a field (`check_count`) that is not the one
(`checkcount`) that is loaded.

## 4. Proofs

All proofs are for every value of the constants: any number of inserters,
clients, ranges and failures, and no use is made of the bounds.

`TacTableProofs`

- `TypeCorrect`: the type invariant, with what a request in progress looks like.
- `LinksEnclose`: a link names a stored range that strictly encloses its own. It
  is not inductive: a goroutine carries records it has read and will write them
  later, and the parent it found. `LinkInv` adds that every record a goroutine
  holds is one of a stored range with a sound link, that its parent is stored
  and encloses its range, and that the children it will relink are enclosed by
  the range it saves; ranges are never removed, so what held when a record was
  read still holds when it is written.
- `NeighboursLinked`: a range stored next to one that encloses it has a link,
  whichever came last, until inserts overlap or a call fails (`disturbed`,
  `faults`). `NestInv` says what the goroutine at work has found: a backward walk
  that has left the range's own place has a parent if the range before encloses
  its own, a forward walk has the range after on its list if its own encloses
  that, and between the save of a range and those of its children a child
  without a link is on the list. New neighbours are the only ones to consider,
  as a range that comes between two others parts them, and `OneNeighbour` says
  that the walks meet the right ones.
- `RefusalsJustified`: a step that answers `range_exist` finds an equal or
  crossing range in the table; an action property from the same invariant.
- `RefinesRegistry`: `TacTable` implements `TacRegistry` until inserts overlap or
  a lookup fails. The point is the step that saves: as long as nothing was
  disturbed, the goroutine that saves is the only one at work, its range was
  looked up before and found missing, and nobody else wrote since.
- `WalksGoOn`, the safety half of `Answered`: every call of an inserter takes it
  to a later call, strictly down the keys in the backward walk, strictly up in
  the forward one, or to the next copy; no step of another sends it back. Keys
  run out downwards, and copies run out; upwards they run out if there are
  finitely many, and else others may keep adding ranges ahead.

`ImeiTableProofs`

- `TypeCorrect`: types of heap, table and inserters.
- `ColorsAsked`: an IMEI is on record in a colour only if somebody asked for it.
  `AskedInv` extends this to every object of the heap, stored or not, and to
  what each inserter is about to write, for both kinds of repository.
- `NeverTwice`: no list has an end twice. `DistinctInv` says it of every object of
  the heap and of the lists about to be assigned, and that an inserter past its
  check holds an object without the end it will add: over a database because the
  object is its own copy, in memory because nobody else is at work.
- `RefinesRegistry`: `ImeiTable` implements `ImeiRegistry` until inserts overlap
  or a lookup fails. With a shared object the list is visible when it is
  assigned, before the save; over a database at the save; `SeqInv` says in both
  cases how far the object at work is from the record on file.

`EquipmentCacheProofs`

- `TypeCorrect`.
- `StaleExcused`: removed equipment is in the cache, or in a later answer, only
  if a fill was under way when its row was deleted or an invalidation failed.
  `StaleInv` adds what the getters and fills under way carry: a row read before
  the deletion is carried by those counted in `excused` only.
- `ChecksAgree`, of `EquipmentService` (the module extends both; they share no
  state): one equipment gets one answer from `CheckTac`, whatever the
  interface, the time and the provisioning in between, and one from `CheckImei`
  once an IMEI was inserted. `AnswerInv`: every answer is determined by the
  equipment and the kind of check. It rests on three lemmas: a cut IMEI finds at
  most one row of the compiled table (`OneRow`), so that the iteration of the
  map decides nothing; the two conversions of colours agree on every answer of
  `CheckTac` (`InterfacesAgree`); and a check of a cut IMEI is answered from
  that row alone (`CheckImeiDetermined`). No assumption on a constant is used.
- `ServiceTypeCorrect`: types of the provisioned tables, and that every answer is
  a status or a refusal.

`EquipmentStoreProofs`

- `TypeCorrect`, with the counters of both stores bounded by the calls made.
- `TransactionsAtomic`: PostgreSQL's transactions are atomic. `AtomInv` says what
  is held back of an open transaction (its row if and only if its client is the
  writer, its audits in the client's log), that the writer's store differs from
  everybody's by this transaction alone, and what is shown of a finished one.
  Why it holds: a write waits for the writer before, so that nothing is
  committed underneath an open transaction that has written.
- `CountsKept`: the counter is exact. Kept by every statement on the store it
  works on (`Good`, of the store everybody sees and of the writer's).
- `HistoryKept` and `SnapshotsKept`: what was ever written of the history is a
  chain to the row, the k-th snapshot has status and time of the k-th change of
  the status (`Good` again; `AppendChains` and `AppendMatches` are the lemmas
  about a row added to the history, the latter by counting its changes of the
  status), and of rows in the order of their times the purges have deleted a
  beginning. The last is not kept by itself: a commit replaces both tables.
  `KeepInv`: what the writer will commit continues the tables everybody sees, as
  each statement continues the ones it works on, and nobody else's gets through
  while the writer is open. So rows keep their places, and rows out of order
  stay so; `PurgeInv` then says of both tables what the theorems do.

`PagedReadsProofs`

- `TypeCorrect`.
- `Complete`: a reader who comes to an empty page has every row it may expect.
  `PagesInv` says that each such row is either held or has at least as many rows
  before it as the reader's offset; a write that brings a row forward only adds
  to those, one that takes a row away from before it ends the expectation.
- `Kept`: a copy replaces or drops nothing in MongoDB; an action property.

`AppLifecycleProofs`

- `TypeCorrect`.
- `ListedServes`: the manager lists the pod only while its port is bound, but for
  a process that was ended and an `Unregister` that failed. `ServingInv` ties
  `main`'s place to the listener and to the list: there is no way from the
  signal to the closing of the port around `Unregister`.
- `RequestsAnswered`: an orderly end that had the time cuts no HTTP/1.1 request
  off. `DrainInv`: with the port closed none comes in, and `late` tells whether
  Shutdown found some unanswered.
- `GoesForward`, the safety half of `SignalEnds` and `DiameterServes`: `main` only
  goes forward, takes a signal out of the channel only to shut down, and is past
  the start of the Diameter goroutine before it registers. `StartedInv` ties
  channel, list and goroutine to `main`'s place.

`MigratorProofs`

- `TypeCorrect`.
- `RecordsTrue`, `MigrationAtomic`, `SuccessesTrue`: what is recorded is there,
  schema and record stay or go together, and success is true. `MigratorInv` adds
  what a process knows at each of its steps: the holder has the whole schema
  executed, a process past the n-th quarter has created the n quarters before,
  and one whose record was found has ended with what it was started for.
- `RefinesDatabase`: `Migrator` implements `MigratedDatabase`. Its
  `FindUnapplied` is the check and its `Migrate` the commit; what has to be true
  at the commit was found out several steps before.
  `RefineInv` carries it: the open transaction is that of the one process
  between executing and committing, and meanwhile nobody else executes, so that
  nothing that cannot be repeated has come (`HolderInv`); a process that has gone
  on to verify, or has ended well, has its record (`FoundInv`); `audit_log` never
  is without the partitions of the schema (`PartitionInv`), so that the
  statements executed by hand map to single ones.
- `StepsRunOut`, the safety half of `EveryoneEnds`: each step of a process lowers
  a bound on those it has left (`Remaining`), nobody's step raises it, and the
  holder of the open transaction, the only one a process waits for, is about to
  record or commit and waits for nobody.

`DiameterGatewayProofs`

- `TypeCorrect`: among it, that a goroutine holds `eirConnMutex` just while it
  tests the connection or dials. `TypeInv` adds that the holder knows whether
  there is a connection, which the test relies on.
- `NoneLeaks`, `SoundAlone`: every connection but the present one is closed, and
  one that is open and of which no test took a byte has at most one user. `GateInv` says the latter of
  each pair of goroutines. It is kept because most steps only make connections
  worse (`Worsens`). Of the others, dialling makes a connection nobody else uses,
  the test closes a silent one or hands out one that has ended or that it has
  torn itself, and Stop ends all use.
- `AnswersOrdered`: the sound answers a client gets are to its own requests, in
  their order and each once, whatever other answers come between. `OrderInv`
  follows a request all the way: what a client has got, what is under way back
  to it, what its goroutine works on and what waits before the gateway are its
  own requests, each kind in rising order and before the next. The hard part
  is the shared connection to the EIR core, where a goroutine could read an
  answer for another. `CleanInv`: on a connection that is not torn there is
  nothing but the request of the goroutine that uses it, the answer to that,
  or what is left of the answer; so two goroutines share only one that has
  ended, or one whose answers do not count as sound. Of a torn connection
  nothing is claimed.
- `HolderGoesOn`: whoever holds the lock dials with no connection, or tests one
  that is open, ended or reset, never a closed one. It is what `LockProgress`
  needs in every state, said without `ENABLED`.

Assumptions. Each module names the assumptions on its constants; they say that
constants that stand for nothing (`Nil`, `None`, `Nobody`) are not values, that
`Garbage` is no message, that the two
kinds of HTTP requests are distinct, that a migration of a year has another name
than a command, and that bounds are numbers. TLC evaluates them in every run.

Only model-checked: everything about liveness (`Answered`,
`EventuallyForgotten`, `DiameterServes`, `SignalEnds`, `EveryoneEnds`) and
`ENABLED` (`LockProgress`), which are out of reach of the proof system. Every
other property of a passing run is a theorem. What is proved towards them are
the halves that are not about fairness: `WalksGoOn`, `GoesForward`,
`StepsRunOut` and `HolderGoesOn`. The other half, that a step a goroutine can
take is taken and that a bound that always falls ends the wait, is TLC's.

## 5. Disagreements between code and documents

With a run that shows them: the three runs above whose answer is "no".

Seen while modelling, and part of the models, but without a run of their own:

- Before the first `InsertImei`, `imeiCheckLength` is 0 and `CheckImei` searches
  for the empty string, which every row of the compiled-in table begins with: any
  equipment is answered with the colour of one of the longest rows, whichever the
  iteration of the map comes to first; `README.md:285` says unknown equipment is
  answered by the default.
- A malformed PEI is answered 500 and not 400 (only `ErrInvalidIMEI` itself is
  compared with, `internal/adapters/http/handler.go:60`).
- A range that crosses a stored one is accepted if a shorter, disjoint range
  stands between them: the backward walk ends at the first range that ends
  before the new one (`pkg/logic/tac.go:268`). The test `Eir_Add_86` wants
  crossing ranges refused.
- Two inserts of one range may both be answered with success, and the second
  colour stays: check and save are two calls, though `range_exist` suggests that
  a stored range keeps its colour.
- A nested range stays without a link when a disjoint range stands between it
  and the enclosing one (`pkg/logic/tac.go:268`).
- Two inserts of IMEIs with one start may lose one of them, in the in-memory
  repository by appending to one list, in a database by saving over each other.
- A failed read passes for a missing range, and the save overwrites its colour.
- A fill under way at a removal brings the removed equipment back into the cache
  until it expires, where `ARCHITECTURE.md:277` promises invalidation.
- The history is read by time, and `CURRENT_TIMESTAMP` is when the transaction
  began: entries of overlapping transactions are listed out of order, and
  `PurgeOldHistory` may delete the newest of them and leave older ones.
- With the extended schema a deletion of equipment fails: the trigger adds a
  history row whose foreign key no longer finds the IMEI
  (`internal/adapters/postgres/schema_extended.sql:115`), though line 284 of it
  says that deletions are tracked.
- The gateway takes the end of the stream for a sign of life
  (`test/integration/containers/diameter-gateway/main.go:337`): after the EIR
  core has closed its connection, requests are given up on it until one meets an
  error the test notices. `test/integration/DOCKER_INTEGRATION_TESTS.md:98`:
  "Auto-reconnect to EIR Core".
- On a database whose schema was made by hand or by the init script of
  `docker-compose.yaml`, `Migrate` fails every time, though
  `docs/MIGRATION.md:211` says that all SQL is `CREATE ... IF NOT EXISTS`; and so
  it does after the record was deleted as `docs/MIGRATION.md:245` tells to run
  the migration again. `VerifySchema` looks for neither `IMEI_INFO` and
  `TAC_INFO` nor for partitions.
- `runMigration` breaks off at an error of `List` and reports that the migration
  is complete (`examples/database_adapter_example.go:351`); a document that is
  there already counts as a failed copy, so that the second start lists errors
  for everything the first has copied.
- Rows with equal times, and rows behind one that is deleted while a reader is
  under way, may be missing from its pages; without a second column in
  `ORDER BY` nothing else can be promised.
- MongoDB stores an audit's fields as `checktime` and `requestsource` and an
  equipment's as `lastupdated`, without tags; the queries, sort orders and purges
  ask for `check_time`, `request_source` and `last_updated`. The queries find
  nothing, the purges delete nothing, and a list is in order only as far as its
  equipment was updated.
- `GetAuditsByTimeRange` of the in-memory repository ignores the range.
- `audit_log_extended` references `audit_log(id)`, which is not unique (the
  primary key is `(id, check_time)`): PostgreSQL refuses to create it, and
  `LogCheckExtended` logs the plain audit and then fails, every time; a caller
  that tries again logs the check twice.

Seen while reading, and not modelled:

- `GET /equipment` takes `offset` and `limit` with `GetInt`
  (`internal/adapters/http/handler.go:200`), which reads gin's own keys and not
  the query: both arrive as 0, and a page is nothing (PostgreSQL), everything
  (MongoDB) or one row (memory). `README.md:203` pages with
  `?offset=0&limit=100`.
- The partitions of `equipment_history` in `schema_extended.sql` are of a table
  that is not partitioned. `psql -f` goes on after such errors, so that the
  triggers are installed all the same.
- With PostgreSQL `RecordChange`, `CreateSnapshot` and the reads of history and
  snapshots fail in the client: the models have no `db` tags.
- `pkg/governance`: `Initialize` runs under `sync.Once`, so that after a first
  failure the second call returns no error and no client; a lost answer of the
  manager leaves the pod listed; a handler set with `SetNotificationHandler`
  never takes effect.
- `test/integration/containers/eir-core/main.go:59` sets a field `ListenAddr`
  that `diameter.ServerConfig` does not have; its start and stop are modelled as
  written.

## 6. Not modelled

- Text: JSON, AVPs, logging, metrics, the digits of an IMEI. Positions and
  starts stand for strings; what padding does to them is in `TacRange`.
- `ClearTacInfo` and `ClearImeiInfo`: no route reaches them. Sort order of
  strings by a database collation: the model orders as the in-memory repository
  does.
- Lists of ends longer than the model's, where two appends may share spare
  capacity; other values of IMEI_CHECK_LENGTH than those of the run.
- The database servers: they are taken to do what they document. Statistics,
  pools, health checks and the creation of MongoDB's indexes: I/O without an
  order of steps.
- Reads and explicit writes of history and snapshots: with PostgreSQL they fail
  before they reach the database. So the snapshots in the model are the triggers'
  alone. `cleanup_old_data` of `schema_extended.sql`: see section 2.
- The time of a single statement that waits for another's transaction: it is
  issued earlier than the model has it, which takes the time when it runs.
- The TLS and HTTP/1.1-only variants of the HTTP server, which `main` does not
  select.
- The governance wrapper: only its own example uses it, and what goes wrong in
  it is told in section 5. `cmd/eir` calls the library itself, and
  `AppLifecycle` models that.
- Configuration loading, legacy repositories, mocks, capture files, the other
  examples: nothing of a running EIR depends on an order of steps there.
- The composition of checks with provisioning: the checks read compiled-in
  tables, so that `EquipmentService` over `TacTable` and `ImeiTable` would be two
  systems that never meet; the run `EquipmentService_provisioned` shows as much.

## 7. Plan

Done: every module of section 2, with a proof of every safety and action property
of the passing runs.

What could follow, should the code change:

1. Checks that read what is provisioned: `EquipmentService` composed with
   `TacTable` and `ImeiTable`, and `CheckTac`'s walk along the links over a table
   that inserters change.
2. A `GovernanceClient` with initialisation, failure and retry, once a program
   uses the wrapper.
3. `EquipmentStore` with reads of history and snapshots inside transactions, once
   they reach the database.
