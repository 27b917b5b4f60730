----------------------------- MODULE ImeiTable ------------------------------
(***************************************************************************)
(* Provisioning IMEIs: InsertImei of pkg/logic/imei.go, run by several     *)
(* HTTP handler goroutines over one repository.                            *)
(*                                                                         *)
(* InsertImei reads the record of the IMEI's start, checks it, extends its *)
(* list of ends and saves it, with no lock held across these steps.  What  *)
(* LookupImeiInfo hands out depends on the repository: a database returns  *)
(* a copy of the row, the in-memory repository the stored object itself,   *)
(* which InsertImei then changes in place, outside the repository's lock.  *)
(* Objects therefore live in a heap, and the table maps a start to one.    *)
(* A list of ends is one value: that two appends may share the spare       *)
(* capacity of one array (from the fourth end on) is left out.             *)
(***************************************************************************)
EXTENDS Naturals, Sequences

CONSTANTS
    Inserter,      \* goroutines handling POST /insert-imei and /equipment
    Start,         \* first imeiCheckLength digits of an IMEI
    End,           \* what follows them, Blank included
    Blank,         \* the " " recorded when nothing follows
    Color,         \* the valid colours
    Nil,           \* no object, no request
    MaxRequests,   \* bound: requests submitted in a behaviour
    Faults,        \* kinds of repository call that may fail: "read", "write"
    MaxFaults      \* bound: failed repository calls in a behaviour

ASSUME BlankAssumption == Blank \in End
ASSUME BoundAssumption == MaxRequests \in Nat /\ MaxFaults \in Nat
ASSUME FaultAssumption == Faults \subseteq {"read", "write"}

\* An object is named by the number of the request that allocated it.
Ref == 1..MaxRequests

Request == [start : Start, end : End, Color : Color]

ASSUME NilAssumption == Nil \notin Ref /\ Nil \notin Request

VARIABLES
    copyOnRead,    \* TRUE: database repository; FALSE: in-memory repository
    imeiData,      \* the repository: stored start -> object
    heap,          \* object -> its record
    pc,            \* what each inserter does next
    req,           \* the request each inserter works on
    number,        \* that request's number
    info,          \* the object each inserter holds
    newEnds,       \* the extended list it is about to assign
    reply,         \* the last answer of each inserter
    asked,         \* every request submitted so far
    submitted,     \* how many there were
    faults,        \* number of failed calls so far
    disturbed      \* inserts overlapped, or a read failed (for the properties)

table == <<imeiData, heap, pc, req, number, info, newEnds, reply, asked,
           submitted, faults>>
vars == <<copyOnRead, table, disturbed>>

ImeiInfo == [StartIMEI : Start, Color : Color, EndIMEI : Seq(End)]

Reply == {"none", "ok", "imei_exist", "color_conflict", "invalid",
          "save_error"}

Elements(s) == {s[n] : n \in 1..Len(s)}

\* Seeded fault: the blank end is kept.
ExtendedKeepingBlank(ends, e) == Append(ends, e)

\* EndIMEI after a new end: a list holding only the blank end is replaced.
Extended(ends, e) == IF ends = <<Blank>> THEN <<e>> ELSE Append(ends, e)

\* A repository call fails; those of the in-memory repository never do.
Fail(kind) == /\ copyOnRead
              /\ kind \in Faults
              /\ faults < MaxFaults
              /\ faults' = faults + 1

\* InsertImei returns: its local variables are gone.
Answer(i, r) ==
    /\ pc' = [pc EXCEPT ![i] = "idle"]
    /\ reply' = [reply EXCEPT ![i] = r]
    /\ req' = [req EXCEPT ![i] = Nil]
    /\ info' = [info EXCEPT ![i] = Nil]
    /\ newEnds' = [newEnds EXCEPT ![i] = <<>>]

Init ==
    /\ copyOnRead \in BOOLEAN
    /\ imeiData = [s \in {} |-> s]
    /\ heap = [r \in {} |-> r]
    /\ pc = [i \in Inserter |-> "idle"]
    /\ req = [i \in Inserter |-> Nil]
    /\ number = [i \in Inserter |-> 0]
    /\ info = [i \in Inserter |-> Nil]
    /\ newEnds = [i \in Inserter |-> <<>>]
    /\ reply = [i \in Inserter |-> "none"]
    /\ asked = {}
    /\ submitted = 0
    /\ faults = 0
    /\ disturbed = FALSE

-----------------------------------------------------------------------------

\* A request arrives and passes validateAddImei.
Submit(i, r) ==
    /\ pc[i] = "idle"
    /\ submitted < MaxRequests
    /\ submitted' = submitted + 1
    /\ number' = [number EXCEPT ![i] = submitted + 1]
    /\ req' = [req EXCEPT ![i] = r]
    /\ asked' = asked \cup {r}
    /\ reply' = [reply EXCEPT ![i] = "none"]
    /\ pc' = [pc EXCEPT ![i] = "lookup"]
    /\ UNCHANGED <<imeiData, heap, info, newEnds, faults>>

\* A request that validateAddImei refuses never reaches the repository.
SubmitInvalid(i) ==
    /\ pc[i] = "idle"
    /\ submitted < MaxRequests
    /\ submitted' = submitted + 1
    /\ Answer(i, "invalid")
    /\ UNCHANGED <<imeiData, heap, number, asked, faults>>

\* The heap with object r holding rec.
Stored(r, rec) == [x \in DOMAIN heap \cup {r} |->
                      IF x = r THEN rec ELSE heap[x]]

\* LookupImeiInfo finds the start: the stored object, or a fresh copy of it.
LookupHit(i) ==
    /\ pc[i] = "lookup"
    /\ req[i].start \in DOMAIN imeiData
    /\ LET stored == imeiData[req[i].start] IN
       IF copyOnRead
       THEN /\ heap' = Stored(number[i], heap[stored])
            /\ info' = [info EXCEPT ![i] = number[i]]
       ELSE /\ info' = [info EXCEPT ![i] = stored]
            /\ UNCHANGED heap
    /\ pc' = [pc EXCEPT ![i] = "check"]
    /\ UNCHANGED <<imeiData, req, number, newEnds, reply, asked, submitted,
                   faults>>

\* LookupImeiInfo finds nothing, or fails: a record is made for the request.
LookupMiss(i) ==
    /\ pc[i] = "lookup"
    /\ \/ req[i].start \notin DOMAIN imeiData /\ UNCHANGED faults
       \/ Fail("read")
    /\ heap' = Stored(number[i], [StartIMEI |-> req[i].start,
                                  Color |-> req[i].Color,
                                  EndIMEI |-> <<req[i].end>>])
    /\ info' = [info EXCEPT ![i] = number[i]]
    /\ pc' = [pc EXCEPT ![i] = "save"]
    /\ UNCHANGED <<imeiData, req, number, newEnds, reply, asked, submitted>>

-----------------------------------------------------------------------------

\* The record found has another colour.
CheckColor(i) ==
    /\ pc[i] = "check"
    /\ heap[info[i]].Color # req[i].Color
    /\ Answer(i, "color_conflict")
    /\ UNCHANGED <<imeiData, heap, number, asked, submitted, faults>>

\* The scan of EndIMEI meets the request's end.
CheckEnds(i) ==
    /\ pc[i] = "check"
    /\ heap[info[i]].Color = req[i].Color
    /\ req[i].end \in Elements(heap[info[i]].EndIMEI)
    /\ Answer(i, "imei_exist")
    /\ UNCHANGED <<imeiData, heap, number, asked, submitted, faults>>

\* Seeded fault: the colour is not compared.
CheckPassesAnyColor(i) ==
    /\ pc[i] = "check"
    /\ req[i].end \notin Elements(heap[info[i]].EndIMEI)
    /\ pc' = [pc EXCEPT ![i] = "append"]
    /\ UNCHANGED <<imeiData, heap, req, number, info, newEnds, reply, asked,
                   submitted, faults>>

\* Seeded fault: the list is not scanned.
CheckPassesUnscanned(i) ==
    /\ pc[i] = "check"
    /\ heap[info[i]].Color = req[i].Color
    /\ pc' = [pc EXCEPT ![i] = "append"]
    /\ UNCHANGED <<imeiData, heap, req, number, info, newEnds, reply, asked,
                   submitted, faults>>

\* The scan does not meet it.
CheckPasses(i) ==
    /\ pc[i] = "check"
    /\ heap[info[i]].Color = req[i].Color
    /\ req[i].end \notin Elements(heap[info[i]].EndIMEI)
    /\ pc' = [pc EXCEPT ![i] = "append"]
    /\ UNCHANGED <<imeiData, heap, req, number, info, newEnds, reply, asked,
                   submitted, faults>>

\* Seeded fault: the request's whole IMEI is appended, not the digits left over.
ExtendEndsWithRequest(i) ==
    /\ pc[i] = "append"
    /\ newEnds' = [newEnds EXCEPT
                      ![i] = Append(heap[info[i]].EndIMEI, req[i])]
    /\ pc' = [pc EXCEPT ![i] = "assign"]
    /\ UNCHANGED <<imeiData, heap, req, number, info, reply, asked, submitted,
                   faults>>

\* EndIMEI is read again to build the extended list ...
ExtendEnds(i) ==
    /\ pc[i] = "append"
    /\ newEnds' = [newEnds EXCEPT
                      ![i] = Extended(heap[info[i]].EndIMEI, req[i].end)]
    /\ pc' = [pc EXCEPT ![i] = "assign"]
    /\ UNCHANGED <<imeiData, heap, req, number, info, reply, asked, submitted,
                   faults>>

\* ... which is assigned to the object, shared or not.
AssignEnds(i) ==
    /\ pc[i] = "assign"
    /\ heap' = [heap EXCEPT ![info[i]].EndIMEI = newEnds[i]]
    /\ pc' = [pc EXCEPT ![i] = "save"]
    /\ UNCHANGED <<imeiData, req, number, info, newEnds, reply, asked,
                   submitted, faults>>

\* SaveImeiInfo: an upsert of the object.
Save(i) ==
    /\ pc[i] = "save"
    /\ imeiData' = [s \in DOMAIN imeiData \cup {req[i].start} |->
                       IF s = req[i].start THEN info[i] ELSE imeiData[s]]
    /\ Answer(i, "ok")
    /\ UNCHANGED <<heap, number, asked, submitted, faults>>

\* The save fails: an error is answered, and the row is as it was.
SaveFails(i) ==
    /\ pc[i] = "save"
    /\ Fail("write")
    /\ Answer(i, "save_error")
    /\ UNCHANGED <<imeiData, heap, number, asked, submitted>>

-----------------------------------------------------------------------------

\* The steps of one InsertImei in progress.
InsertImei(i) ==
    \/ LookupHit(i) \/ LookupMiss(i)
    \/ CheckColor(i) \/ CheckEnds(i) \/ CheckPasses(i)
    \/ ExtendEnds(i) \/ AssignEnds(i)
    \/ Save(i) \/ SaveFails(i)

\* Two requests are under way.
Overlap == \E i, j \in Inserter :
               i # j /\ pc[i] # "idle" /\ pc[j] # "idle"

\* A lookup failed: faults went up and an inserter is past its lookup.
ReadFailed == /\ faults' # faults
              /\ \E i \in Inserter : pc[i] = "lookup" /\ pc'[i] = "save"

Next ==
    /\ \E i \in Inserter :
          \/ \E r \in Request : Submit(i, r)
          \/ SubmitInvalid(i)
          \/ InsertImei(i)
    /\ disturbed' = (disturbed \/ Overlap' \/ ReadFailed)
    /\ UNCHANGED copyOnRead

Spec == Init /\ [][Next]_vars

-----------------------------------------------------------------------------
(* Properties *)

TypeOK ==
    /\ copyOnRead \in BOOLEAN /\ disturbed \in BOOLEAN
    /\ DOMAIN heap \subseteq Ref
    /\ heap \in [DOMAIN heap -> ImeiInfo]
    /\ DOMAIN imeiData \subseteq Start
    /\ imeiData \in [DOMAIN imeiData -> DOMAIN heap]
    /\ pc \in [Inserter -> {"idle", "lookup", "check", "append", "assign",
                            "save"}]
    /\ req \in [Inserter -> Request \cup {Nil}]
    /\ number \in [Inserter -> 0..MaxRequests]
    /\ info \in [Inserter -> Ref \cup {Nil}]
    /\ newEnds \in [Inserter -> Seq(End)]
    /\ reply \in [Inserter -> Reply]
    /\ asked \subseteq Request
    /\ submitted \in 0..MaxRequests
    /\ faults \in 0..MaxFaults

\* The record stored for a start.
Row(s) == heap[imeiData[s]]

\* Every IMEI on record was asked for in the very colour it is recorded with:
\* however inserts overwrite each other, no IMEI gets a colour nobody gave it.
ColorAsked ==
    \A s \in DOMAIN imeiData : \A e \in Elements(Row(s).EndIMEI) :
        [start |-> s, end |-> e, Color |-> Row(s).Color] \in asked

\* The request that provisions end e of the start of record rec, in its colour.
Asking(rec, e) == [start |-> rec.StartIMEI, end |-> e, Color |-> rec.Color]

\* What an inserter in progress knows of the object it holds.
TaskOK(i) ==
    /\ pc[i] # "idle" => req[i] \in asked
    /\ pc[i] = "lookup" => /\ number[i] \in 1..submitted
                           /\ number[i] \notin DOMAIN heap
    /\ pc[i] \notin {"idle", "lookup"} =>
          /\ info[i] \in DOMAIN heap
          /\ heap[info[i]].StartIMEI = req[i].start
    /\ pc[i] \in {"append", "assign", "save"} =>
          heap[info[i]].Color = req[i].Color
    /\ pc[i] = "assign" =>
          \A e \in Elements(newEnds[i]) : Asking(heap[info[i]], e) \in asked

\* ColorAsked made inductive: it holds of every object, stored or not, and of
\* the lists about to be assigned to one.
AskedInv ==
    /\ TypeOK
    /\ DOMAIN heap \subseteq 1..submitted
    /\ \A s \in DOMAIN imeiData : Row(s).StartIMEI = s
    /\ \A r \in DOMAIN heap : \A e \in Elements(heap[r].EndIMEI) :
          Asking(heap[r], e) \in asked
    /\ \A i, j \in Inserter :
          i # j /\ pc[i] = "lookup" /\ pc[j] = "lookup" =>
              number[i] # number[j]
    /\ \A i \in Inserter : TaskOK(i)

\* The table, with objects and lists hidden, is a registry of IMEIs, as long as
\* no two inserts overlap and no read fails: an insert registers its IMEI in
\* one step, or nothing, though it works on a copy or in place and may fail.
registered == [s \in DOMAIN imeiData |->
                  [Color |-> Row(s).Color, Ends |-> Elements(Row(s).EndIMEI)]]
Registry == INSTANCE ImeiRegistry WITH registry <- registered
ImplementsRegistry ==
    Registry!Init /\ [][Registry!Next \/ disturbed']_registered

\* No IMEI is on record twice: over a database whatever happens, as an insert
\* checks and extends a copy of its own; in memory, where it extends what all
\* share, unless inserts overlap.
NoDuplicates ==
    copyOnRead \/ ~disturbed =>
        \A s \in DOMAIN imeiData : LET ends == Row(s).EndIMEI IN
            \A m, n \in 1..Len(ends) : ends[m] = ends[n] => m = n

=============================================================================
