------------------------------ MODULE TacTable ------------------------------
(***************************************************************************)
(* Provisioning TAC ranges: InsertTac of pkg/logic/tac.go, run by several  *)
(* HTTP handler goroutines over one repository.                            *)
(*                                                                         *)
(* The repository locks (or executes one statement) per call, so every     *)
(* repository call is one action, with the code that follows it up to the  *)
(* next call; between two calls of one inserter the others may run.        *)
(* A repository over a database can fail a call: a failed read is reported *)
(* as "no such record", a failed write as an error.                        *)
(***************************************************************************)
EXTENDS TacRange, Sequences

CONSTANTS
    Inserter,      \* goroutines handling POST /insert-tac
    Color,         \* the valid colours
    Nil,           \* no key (a nil PrevLink, a nil bestParent)
    MaxRequests,   \* bound: requests submitted in a behaviour
    Faults,        \* kinds of repository call that may fail: "read", "write"
    MaxFaults      \* bound: failed repository calls in a behaviour

ASSUME NilAssumption == Nil \notin Key
ASSUME BoundAssumption == MaxRequests \in Nat /\ MaxFaults \in Nat
ASSUME FaultAssumption == Faults \subseteq {"read", "write"}

VARIABLES
    tacData,       \* the repository: stored key -> record
    pc,            \* the repository call each inserter is about to make
    req,           \* the request each inserter works on
    cursor,        \* the key given to that call
    bestParent,    \* tightest enclosing range met so far, or Nil
    listUpdate,    \* copies of enclosed records, to be saved with a new link
    reply,         \* the last answer of each inserter
    submitted,     \* number of requests so far
    faults,        \* number of failed calls so far
    disturbed      \* inserts overlapped, or a lookup of the request's key
                   \* failed (for the properties)

vars == <<tacData, pc, req, cursor, bestParent, listUpdate, reply,
          submitted, faults, disturbed>>

TacInfo == [KeyTac : Key, Color : Color, PrevLink : Key \cup {Nil}]

Request == [key : Key, Color : Color]

Call == {"idle", "lookup", "prev", "lookupParent", "next", "save", "children"}

Reply == {"none", "ok", "range_exist", "invalid_value", "save_error"}

-----------------------------------------------------------------------------

\* Greatest stored key below k, and least stored key above it.
Below(k) == {x \in DOMAIN tacData : Less(x, k)}
Above(k) == {x \in DOMAIN tacData : Less(k, x)}
IsPrev(p, k) == p \in Below(k) /\ \A x \in Below(k) : ~Less(p, x)
IsNext(n, k) == n \in Above(k) /\ \A x \in Above(k) : ~Less(x, n)

\* bestParent after meeting an enclosing range p.
Tighter(p, best) ==
    IF best = Nil \/ Encloses(best, p) THEN p ELSE best

\* Seeded fault: the link joins the bounds of the range in the wrong order.
RelinkedSwapped(k, key) ==
    [tacData[k] EXCEPT !.PrevLink = <<EndOf(key), StartOf(key)>>]

\* The copy of a stored record whose PrevLink is redirected to key.
Relinked(k, key) == [tacData[k] EXCEPT !.PrevLink = key]

\* SaveTacInfo: an upsert.
Saved(rec) == [x \in DOMAIN tacData \cup {rec.KeyTac} |->
                  IF x = rec.KeyTac THEN rec ELSE tacData[x]]

Fail(kind) == /\ kind \in Faults
              /\ faults < MaxFaults
              /\ faults' = faults + 1

\* InsertTac returns: its local variables are gone.
Answer(i, r) ==
    /\ pc' = [pc EXCEPT ![i] = "idle"]
    /\ reply' = [reply EXCEPT ![i] = r]
    /\ req' = [req EXCEPT ![i] = Nil]
    /\ cursor' = [cursor EXCEPT ![i] = Nil]
    /\ bestParent' = [bestParent EXCEPT ![i] = Nil]
    /\ listUpdate' = [listUpdate EXCEPT ![i] = <<>>]

Goto(i, call, key) == /\ pc' = [pc EXCEPT ![i] = call]
                      /\ cursor' = [cursor EXCEPT ![i] = key]

Init ==
    /\ tacData = [k \in {} |-> k]
    /\ pc = [i \in Inserter |-> "idle"]
    /\ req = [i \in Inserter |-> Nil]
    /\ cursor = [i \in Inserter |-> Nil]
    /\ bestParent = [i \in Inserter |-> Nil]
    /\ listUpdate = [i \in Inserter |-> <<>>]
    /\ reply = [i \in Inserter |-> "none"]
    /\ submitted = 0
    /\ faults = 0
    /\ disturbed = FALSE

-----------------------------------------------------------------------------

\* A request arrives and passes validation.
Submit(i, r) ==
    /\ pc[i] = "idle"
    /\ submitted < MaxRequests
    /\ submitted' = submitted + 1
    /\ req' = [req EXCEPT ![i] = r]
    /\ reply' = [reply EXCEPT ![i] = "none"]
    /\ Goto(i, "lookup", r.key)
    /\ UNCHANGED <<tacData, bestParent, listUpdate, faults>>

\* A request whose end is below its start is refused before any call.
SubmitInverted(i) ==
    /\ pc[i] = "idle"
    /\ submitted < MaxRequests
    /\ submitted' = submitted + 1
    /\ Answer(i, "invalid_value")
    /\ UNCHANGED <<tacData, faults>>

\* LookupTacInfo of the request's key finds a record.
LookupHit(i) ==
    /\ pc[i] = "lookup"
    /\ req[i].key \in DOMAIN tacData
    /\ Answer(i, "range_exist")
    /\ UNCHANGED <<tacData, submitted, faults>>

\* Seeded fault: the existence check is gone.
LookupUnchecked(i) ==
    /\ pc[i] = "lookup"
    /\ Goto(i, "prev", req[i].key)
    /\ UNCHANGED <<tacData, req, bestParent, listUpdate, reply, submitted,
                   faults>>

\* It finds none, or the read fails.
LookupMiss(i) ==
    /\ pc[i] = "lookup"
    /\ \/ req[i].key \notin DOMAIN tacData /\ UNCHANGED faults
       \/ Fail("read")
    /\ Goto(i, "prev", req[i].key)
    /\ UNCHANGED <<tacData, req, bestParent, listUpdate, reply, submitted>>

-----------------------------------------------------------------------------

\* PrevTacInfo reaches the start of the table, or fails.
PrevEnd(i) ==
    /\ pc[i] = "prev"
    /\ \/ Below(cursor[i]) = {} /\ UNCHANGED faults
       \/ Fail("read")
    /\ Goto(i, "next", req[i].key)
    /\ UNCHANGED <<tacData, req, bestParent, listUpdate, reply, submitted>>

\* PrevTacInfo returns a range enclosing the new one.
PrevParent(i) ==
    /\ pc[i] = "prev"
    /\ \E p \in DOMAIN tacData :
          /\ IsPrev(p, cursor[i])
          /\ Encloses(p, req[i].key)
          /\ bestParent' = [bestParent EXCEPT ![i] = Tighter(p, @)]
          /\ Goto(i, "prev", p)
    /\ UNCHANGED <<tacData, req, listUpdate, reply, submitted, faults>>

\* PrevTacInfo returns a range the new one encloses.
PrevChild(i) ==
    /\ pc[i] = "prev"
    /\ \E p \in DOMAIN tacData :
          /\ IsPrev(p, cursor[i])
          /\ ~Encloses(p, req[i].key)
          /\ Encloses(req[i].key, p)
          /\ listUpdate' = [listUpdate EXCEPT
                               ![i] = Append(@, Relinked(p, req[i].key))]
          /\ Goto(i, "prev", p)
    /\ UNCHANGED <<tacData, req, bestParent, reply, submitted, faults>>

\* PrevTacInfo returns a range crossing the new one.
PrevCross(i) ==
    /\ pc[i] = "prev"
    /\ \E p \in DOMAIN tacData :
          /\ IsPrev(p, cursor[i])
          /\ ~Encloses(p, req[i].key)
          /\ ~Encloses(req[i].key, p)
          /\ EndOf(p) >= StartOf(req[i].key)
    /\ Answer(i, "range_exist")
    /\ UNCHANGED <<tacData, submitted, faults>>

\* PrevTacInfo returns a range that ends before the new one starts: the walk
\* stops there, after one look at that range's own parent.
PrevDisjoint(i) ==
    /\ pc[i] = "prev"
    /\ \E p \in DOMAIN tacData :
          /\ IsPrev(p, cursor[i])
          /\ EndOf(p) < StartOf(req[i].key)
          /\ IF tacData[p].PrevLink = Nil
             THEN Goto(i, "next", req[i].key)
             ELSE Goto(i, "lookupParent", tacData[p].PrevLink)
    /\ UNCHANGED <<tacData, req, bestParent, listUpdate, reply, submitted,
                   faults>>

\* Seeded fault: the neighbour's parent is taken without comparing its end.
LookupParentUnchecked(i) ==
    /\ pc[i] = "lookupParent"
    /\ cursor[i] \in DOMAIN tacData
    /\ bestParent' = [bestParent EXCEPT ![i] = Tighter(cursor[i], @)]
    /\ Goto(i, "next", req[i].key)
    /\ UNCHANGED <<tacData, req, listUpdate, reply, submitted, faults>>

\* LookupTacInfo of that parent; it counts if it encloses the new range.
LookupParent(i) ==
    /\ pc[i] = "lookupParent"
    /\ \/ /\ cursor[i] \in DOMAIN tacData
          /\ Encloses(cursor[i], req[i].key)
          /\ bestParent' = [bestParent EXCEPT ![i] = Tighter(cursor[i], @)]
          /\ UNCHANGED faults
       \/ /\ ~(cursor[i] \in DOMAIN tacData /\ Encloses(cursor[i], req[i].key))
          /\ UNCHANGED <<bestParent, faults>>
       \/ Fail("read") /\ UNCHANGED bestParent
    /\ Goto(i, "next", req[i].key)
    /\ UNCHANGED <<tacData, req, listUpdate, reply, submitted>>

-----------------------------------------------------------------------------

\* Seeded fault: the walk stops at a range starting where the new one ends.
NextEndEarly(i) ==
    /\ pc[i] = "next"
    /\ \/ Above(cursor[i]) = {}
       \/ \E n \in DOMAIN tacData :
             /\ IsNext(n, cursor[i])
             /\ StartOf(n) >= EndOf(req[i].key)
    /\ Goto(i, "save", req[i].key)
    /\ UNCHANGED <<tacData, req, bestParent, listUpdate, reply, submitted,
                   faults>>

\* NextTacInfo reaches the end of the table, or fails, or returns a range
\* that starts after the new one ends.
NextEnd(i) ==
    /\ pc[i] = "next"
    /\ \/ Above(cursor[i]) = {} /\ UNCHANGED faults
       \/ /\ \E n \in DOMAIN tacData :
                /\ IsNext(n, cursor[i])
                /\ StartOf(n) > EndOf(req[i].key)
          /\ UNCHANGED faults
       \/ Fail("read")
    /\ Goto(i, "save", req[i].key)
    /\ UNCHANGED <<tacData, req, bestParent, listUpdate, reply, submitted>>

\* Seeded fault: the walk goes on from the new range instead of the parent.
NextParentStuck(i) ==
    /\ pc[i] = "next"
    /\ \E n \in DOMAIN tacData :
          /\ IsNext(n, cursor[i])
          /\ Encloses(n, req[i].key)
          /\ bestParent' = [bestParent EXCEPT ![i] = Tighter(n, @)]
          /\ Goto(i, "next", req[i].key)
    /\ UNCHANGED <<tacData, req, listUpdate, reply, submitted, faults>>

\* NextTacInfo returns a range enclosing the new one (same start, later end).
NextParent(i) ==
    /\ pc[i] = "next"
    /\ \E n \in DOMAIN tacData :
          /\ IsNext(n, cursor[i])
          /\ Encloses(n, req[i].key)
          /\ bestParent' = [bestParent EXCEPT ![i] = Tighter(n, @)]
          /\ Goto(i, "next", n)
    /\ UNCHANGED <<tacData, req, listUpdate, reply, submitted, faults>>

\* NextTacInfo returns a range the new one encloses.
NextChild(i) ==
    /\ pc[i] = "next"
    /\ \E n \in DOMAIN tacData :
          /\ IsNext(n, cursor[i])
          /\ ~Encloses(n, req[i].key)
          /\ Encloses(req[i].key, n)
          /\ listUpdate' = [listUpdate EXCEPT
                               ![i] = Append(@, Relinked(n, req[i].key))]
          /\ Goto(i, "next", n)
    /\ UNCHANGED <<tacData, req, bestParent, reply, submitted, faults>>

\* Seeded fault: any range that is neither parent nor child is refused.
NextCrossAny(i) ==
    /\ pc[i] = "next"
    /\ \E n \in DOMAIN tacData :
          /\ IsNext(n, cursor[i])
          /\ ~Encloses(n, req[i].key)
          /\ ~Encloses(req[i].key, n)
    /\ Answer(i, "range_exist")
    /\ UNCHANGED <<tacData, submitted, faults>>

\* NextTacInfo returns a range crossing the new one.
NextCross(i) ==
    /\ pc[i] = "next"
    /\ \E n \in DOMAIN tacData :
          /\ IsNext(n, cursor[i])
          /\ ~Encloses(n, req[i].key)
          /\ ~Encloses(req[i].key, n)
          /\ StartOf(n) <= EndOf(req[i].key)
    /\ Answer(i, "range_exist")
    /\ UNCHANGED <<tacData, submitted, faults>>

-----------------------------------------------------------------------------

\* SaveTacInfo of the new record.
SaveNew(i) ==
    /\ pc[i] = "save"
    /\ tacData' = Saved([KeyTac |-> req[i].key, Color |-> req[i].Color,
                         PrevLink |-> bestParent[i]])
    /\ Goto(i, "children", Nil)
    /\ UNCHANGED <<req, bestParent, listUpdate, reply, submitted, faults>>

\* The save fails: its error is the answer, and nothing was stored.
SaveNewFails(i) ==
    /\ pc[i] = "save"
    /\ Fail("write")
    /\ Answer(i, "save_error")
    /\ UNCHANGED <<tacData, submitted>>

\* SaveTacInfo of the next relinked copy; its error is ignored.
SaveChild(i) ==
    /\ pc[i] = "children"
    /\ listUpdate[i] # <<>>
    /\ \/ tacData' = Saved(Head(listUpdate[i])) /\ UNCHANGED faults
       \/ Fail("write") /\ UNCHANGED tacData
    /\ listUpdate' = [listUpdate EXCEPT ![i] = Tail(@)]
    /\ UNCHANGED <<pc, req, cursor, bestParent, reply, submitted>>

\* No copy is left to save.
Done(i) ==
    /\ pc[i] = "children"
    /\ listUpdate[i] = <<>>
    /\ Answer(i, "ok")
    /\ UNCHANGED <<tacData, submitted, faults>>

-----------------------------------------------------------------------------

\* The repository calls and answers of one InsertTac in progress.
InsertTac(i) ==
    \/ LookupHit(i) \/ LookupMiss(i)
    \/ PrevEnd(i) \/ PrevParent(i) \/ PrevChild(i) \/ PrevCross(i)
    \/ PrevDisjoint(i) \/ LookupParent(i)
    \/ NextEnd(i) \/ NextParent(i) \/ NextChild(i) \/ NextCross(i)
    \/ SaveNew(i) \/ SaveNewFails(i) \/ SaveChild(i) \/ Done(i)

\* Two requests are under way.
Overlap == \E i, j \in Inserter :
               i # j /\ pc[i] # "idle" /\ pc[j] # "idle"

\* The lookup of a request's key failed: faults went up as it walked on.
LookupFailed ==
    /\ faults' # faults
    /\ \E i \in Inserter : pc[i] = "lookup" /\ pc'[i] = "prev"

Watched == disturbed' = (disturbed \/ Overlap' \/ LookupFailed)

Next ==
    /\ \E i \in Inserter :
          \/ \E r \in Request : Submit(i, r)
          \/ SubmitInverted(i)
          \/ InsertTac(i)
    /\ Watched

Spec == Init /\ [][Next]_vars

\* A goroutine that has started a request keeps running.
FairSpec == Spec /\ \A i \in Inserter : WF_vars(InsertTac(i) /\ Watched)

-----------------------------------------------------------------------------
(* Properties *)

TypeOK ==
    /\ DOMAIN tacData \subseteq Key
    /\ tacData \in [DOMAIN tacData -> TacInfo]
    /\ pc \in [Inserter -> Call]
    /\ req \in [Inserter -> Request \cup {Nil}]
    /\ cursor \in [Inserter -> Key \cup {Nil}]
    /\ bestParent \in [Inserter -> Key \cup {Nil}]
    /\ listUpdate \in [Inserter -> Seq(TacInfo)]
    /\ reply \in [Inserter -> Reply]
    /\ submitted \in 0..MaxRequests
    /\ faults \in 0..MaxFaults
    /\ disturbed \in BOOLEAN

\* A link names a stored range strictly enclosing its own, whatever the
\* inserters' interleaving and whichever calls fail.  So CheckTac's walk along
\* PrevLink meets no dangling key and cannot cycle, and the foreign key that
\* schema.sql puts on PrevLink is never violated.
LinkEncloses ==
    \A k \in DOMAIN tacData :
        LET link == tacData[k].PrevLink IN
        link # Nil => /\ link \in DOMAIN tacData
                      /\ link # k
                      /\ Encloses(link, k)

\* What an inserter in progress knows of the table it has walked.
TaskOK(i) ==
    /\ pc[i] = "idle" => bestParent[i] = Nil /\ listUpdate[i] = <<>>
    /\ pc[i] # "idle" => req[i] \in Request
    /\ pc[i] = "prev" =>
          /\ cursor[i] \in Key
          /\ cursor[i] = req[i].key \/ Less(cursor[i], req[i].key)
    /\ pc[i] = "lookupParent" =>
          /\ cursor[i] \in Key
          /\ StartOf(cursor[i]) < StartOf(req[i].key)
    /\ pc[i] = "next" =>
          /\ cursor[i] \in Key
          /\ cursor[i] = req[i].key \/ Less(req[i].key, cursor[i])
    /\ pc[i] = "children" => req[i].key \in DOMAIN tacData
    /\ bestParent[i] # Nil =>
          /\ bestParent[i] \in DOMAIN tacData
          /\ bestParent[i] # req[i].key
          /\ Encloses(bestParent[i], req[i].key)
    /\ \A n \in 1..Len(listUpdate[i]) :
          LET rec == listUpdate[i][n] IN
          /\ rec.KeyTac \in DOMAIN tacData
          /\ rec.KeyTac # req[i].key
          /\ rec.PrevLink = req[i].key
          /\ Encloses(req[i].key, rec.KeyTac)

\* LinkEncloses made inductive: the link a save is about to write already
\* names a stored, strictly enclosing range when the save is reached.
LinkInv ==
    /\ TypeOK
    /\ \A k \in DOMAIN tacData : tacData[k].KeyTac = k
    /\ LinkEncloses
    /\ \A i \in Inserter : TaskOK(i)

\* A request is refused with range_exist only when a range equal to it or
\* crossing it is stored, though the walks read the table one record at a time.
RejectionJustified ==
    [][\A i \in Inserter :
          pc[i] # "idle" /\ reply'[i] = "range_exist" =>
              \E k \in DOMAIN tacData :
                  k = req[i].key \/ Crosses(k, req[i].key)]_vars

\* The table, with the links hidden, is a registry of ranges: it gains one
\* range at a time and keeps the colours of the others.  Saves that fail, and
\* reads that fail after the lookup, do not break this; overlapping inserts and
\* a failed lookup may, so it is promised until the first of these.
registered == [k \in DOMAIN tacData |-> tacData[k].Color]
Registry == INSTANCE TacRegistry WITH registry <- registered
ImplementsRegistry ==
    Registry!Init /\ [][Registry!Next \/ disturbed']_registered

\* Between requests, a range whose predecessor in key order encloses it has a
\* link: whichever of the two was inserted last found the other, as long as no
\* insert overlapped another one and no call failed.
AdjacentNestingLinked ==
    ~disturbed /\ faults = 0 /\ (\A i \in Inserter : pc[i] = "idle") =>
        \A k, p \in DOMAIN tacData :
            IsPrev(p, k) /\ Encloses(p, k) => tacData[k].PrevLink # Nil

\* Every request is answered: the walks end though other inserters add records
\* ahead of them.
Answered == \A i \in Inserter : pc[i] # "idle" ~> pc[i] = "idle"

=============================================================================
