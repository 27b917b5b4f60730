--------------------------- MODULE EquipmentCache ---------------------------
(***************************************************************************)
(* GetEquipment and RemoveEquipment of internal/domain/service/            *)
(* eir_service.go over an equipment repository and the optional cache, for *)
(* one IMEI: calls for different IMEIs share no row and no cache entry.    *)
(*                                                                         *)
(* GetEquipment fills the cache from a goroutine nobody waits for, with    *)
(* the context of a request that may be over: the fill happens at any      *)
(* later time, or never.  Errors of the cache are ignored everywhere.      *)
(* Rows are written by users of the repository, past the service.          *)
(***************************************************************************)
EXTENDS Naturals

CONSTANTS
    Getter,        \* goroutines in GetEquipment
    Remover,       \* goroutines in RemoveEquipment
    Version,       \* contents the row can have
    None,          \* no row, no entry, nothing served
    TTL,           \* time to live of an entry, in seconds
    Faults,        \* what may fail: "cache", "database"
    MaxFills       \* bound: fills of one version under way

ASSUME NoneAssumption == None \notin Version
ASSUME TTLAssumption == TTL \in Nat \ {0}
ASSUME FaultAssumption == Faults \subseteq {"cache", "database"}
ASSUME BoundAssumption == MaxFills \in Nat

VARIABLES
    row,           \* the equipment row
    cache,         \* the cache entry
    fills,         \* version -> goroutines about to cache it
    getting,       \* what each getter does next
    served,        \* the last answer of each getter
    removing,      \* what each remover does next
    gone,          \* a removal was answered and nothing written since
    afterwards,    \* getters that started when gone held, and holds since
    excused        \* a fill was under way when the row was last deleted, or an
                   \* invalidation has failed since

vars == <<row, cache, fills, getting, served, removing, gone, afterwards,
          excused>>

NoEntry == [equipment |-> None, ttl |-> 0]

Init ==
    /\ row = None
    /\ cache = NoEntry
    /\ fills = [v \in Version |-> 0]
    /\ getting = [g \in Getter |-> "idle"]
    /\ served = [g \in Getter |-> None]
    /\ removing = [r \in Remover |-> "idle"]
    /\ gone = FALSE
    /\ afterwards = {}
    /\ excused = FALSE

-----------------------------------------------------------------------------
(* The repository's other users, and the cache's clock *)

\* The row is given the contents v.
Write(v) ==
    /\ row' = v
    /\ gone' = FALSE
    /\ afterwards' = {}
    /\ UNCHANGED <<cache, fills, getting, served, removing, excused>>

Create(v) == row = None /\ Write(v)
Update(v) == row # None /\ Write(v)

\* An entry's time to live runs out; 0 is no time to live.
Expire ==
    /\ cache.ttl > 0
    /\ cache' = NoEntry
    /\ UNCHANGED <<row, fills, getting, served, removing, gone, afterwards,
                   excused>>

-----------------------------------------------------------------------------
(* GetEquipment *)

Get(g) ==
    /\ getting[g] = "idle"
    /\ getting' = [getting EXCEPT ![g] = "cache"]
    /\ served' = [served EXCEPT ![g] = None]
    /\ afterwards' = IF gone THEN afterwards \cup {g} ELSE afterwards \ {g}
    /\ UNCHANGED <<row, cache, fills, removing, gone, excused>>

\* cache.Get finds an entry, which is the answer.
CacheHit(g) ==
    /\ getting[g] = "cache"
    /\ cache.equipment # None
    /\ served' = [served EXCEPT ![g] = cache.equipment]
    /\ getting' = [getting EXCEPT ![g] = "idle"]
    /\ UNCHANGED <<row, cache, fills, removing, gone, afterwards, excused>>

\* cache.Get finds none, or fails.
CacheMiss(g) ==
    /\ getting[g] = "cache"
    /\ cache.equipment = None \/ "cache" \in Faults
    /\ getting' = [getting EXCEPT ![g] = "read"]
    /\ UNCHANGED <<row, cache, fills, served, removing, gone, afterwards,
                   excused>>

\* GetByIMEI finds the row: it is the answer, and a goroutine will cache it.
ReadRow(g) ==
    /\ getting[g] = "read"
    /\ row # None
    /\ fills[row] < MaxFills
    /\ fills' = [fills EXCEPT ![row] = @ + 1]
    /\ served' = [served EXCEPT ![g] = row]
    /\ getting' = [getting EXCEPT ![g] = "idle"]
    /\ UNCHANGED <<row, cache, removing, gone, afterwards, excused>>

\* GetByIMEI finds no row, or fails: ErrEquipmentNotFound either way.
ReadNothing(g) ==
    /\ getting[g] = "read"
    /\ row = None \/ "database" \in Faults
    /\ getting' = [getting EXCEPT ![g] = "idle"]
    /\ UNCHANGED <<row, cache, fills, served, removing, gone, afterwards,
                   excused>>

\* Seeded fault: the entry is given no time to live.
FillForever(v) ==
    /\ fills[v] > 0
    /\ fills' = [fills EXCEPT ![v] = @ - 1]
    /\ cache' = [equipment |-> v, ttl |-> 0]
    /\ UNCHANGED <<row, getting, served, removing, gone, afterwards, excused>>

\* Seeded fault: the row read is not what is cached.
FillNothing(v) ==
    /\ fills[v] > 0
    /\ fills' = [fills EXCEPT ![v] = @ - 1]
    /\ cache' = [equipment |-> None, ttl |-> TTL]
    /\ UNCHANGED <<row, getting, served, removing, gone, afterwards, excused>>

\* The goroutine's cache.Set: done, or given up with the request's context.
Fill(v) ==
    /\ fills[v] > 0
    /\ fills' = [fills EXCEPT ![v] = @ - 1]
    /\ \/ cache' = [equipment |-> v, ttl |-> TTL]
       \/ UNCHANGED cache
    /\ UNCHANGED <<row, getting, served, removing, gone, afterwards, excused>>

-----------------------------------------------------------------------------
(* RemoveEquipment *)

Remove(r) ==
    /\ removing[r] = "idle"
    /\ removing' = [removing EXCEPT ![r] = "delete"]
    /\ UNCHANGED <<row, cache, fills, getting, served, gone, afterwards,
                   excused>>

\* imeiRepo.Delete finds no row, or fails: an error is answered.
DeleteFails(r) ==
    /\ removing[r] = "delete"
    /\ row = None \/ "database" \in Faults
    /\ removing' = [removing EXCEPT ![r] = "idle"]
    /\ UNCHANGED <<row, cache, fills, getting, served, gone, afterwards,
                   excused>>

\* imeiRepo.Delete removes the row.
DeleteRow(r) ==
    /\ removing[r] = "delete"
    /\ row # None
    /\ row' = None
    /\ excused' = (\E v \in Version : fills[v] > 0)
    /\ removing' = [removing EXCEPT ![r] = "invalidate"]
    /\ UNCHANGED <<cache, fills, getting, served, gone, afterwards>>

\* Seeded fault: the cache is left as it is.
InvalidateNothing(r) ==
    /\ removing[r] = "invalidate"
    /\ gone' = (row = None)
    /\ removing' = [removing EXCEPT ![r] = "idle"]
    /\ UNCHANGED <<row, cache, fills, getting, served, afterwards, excused>>

\* cache.Delete, and the answer: success, even if the cache failed.
Invalidate(r) ==
    /\ removing[r] = "invalidate"
    /\ \/ cache' = NoEntry /\ UNCHANGED excused
       \/ "cache" \in Faults /\ UNCHANGED cache /\ excused' = TRUE
    /\ gone' = (row = None)
    /\ removing' = [removing EXCEPT ![r] = "idle"]
    /\ UNCHANGED <<row, fills, getting, served, afterwards>>

-----------------------------------------------------------------------------

Next ==
    \/ \E v \in Version : Create(v) \/ Update(v) \/ Fill(v)
    \/ Expire
    \/ \E g \in Getter :
          Get(g) \/ CacheHit(g) \/ CacheMiss(g) \/ ReadRow(g) \/ ReadNothing(g)
    \/ \E r \in Remover :
          Remove(r) \/ DeleteFails(r) \/ DeleteRow(r) \/ Invalidate(r)

Spec == Init /\ [][Next]_vars

\* Time passes, and a goroutine that was started runs.
FairSpec == /\ Spec
            /\ WF_vars(Expire)
            /\ \A v \in Version : WF_vars(Fill(v))

-----------------------------------------------------------------------------
(* Properties *)

TypeOK ==
    /\ row \in Version \cup {None}
    /\ cache \in [equipment : Version, ttl : {TTL}] \cup {NoEntry}
    /\ fills \in [Version -> 0..MaxFills]
    /\ getting \in [Getter -> {"idle", "cache", "read"}]
    /\ served \in [Getter -> Version \cup {None}]
    /\ removing \in [Remover -> {"idle", "delete", "invalidate"}]
    /\ gone \in BOOLEAN
    /\ afterwards \subseteq Getter
    /\ excused \in BOOLEAN

\* After a removal was answered, the cache holds the equipment, or a later
\* GetEquipment serves it, only if a fill was under way when its row was deleted
\* or an invalidation failed: no other order of gets, fills and removals brings
\* it back.
StaleOnlyIfExcused ==
    /\ gone /\ cache # NoEntry => excused
    /\ \A g \in afterwards : served[g] # None => excused

\* StaleOnlyIfExcused made inductive: no fill is under way for a deleted row
\* that none was under way for when it was deleted.
StaleInv ==
    /\ TypeOK
    /\ gone => row = None
    /\ afterwards # {} => gone
    /\ row = None /\ ~excused => \A v \in Version : fills[v] = 0
    /\ StaleOnlyIfExcused

\* Equipment removed for good is eventually forgotten by the cache for good,
\* whatever raced with the removal and whichever calls failed.
EventuallyForgotten == <>[](row = None) => <>[](cache = NoEntry)

=============================================================================
