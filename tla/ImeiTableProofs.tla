-------------------------- MODULE ImeiTableProofs ---------------------------
(***************************************************************************)
(* Proofs about ImeiTable, for either repository, every set of inserters,  *)
(* starts, ends and colours, every number of requests and every pattern of *)
(* failed calls.                                                           *)
(***************************************************************************)
EXTENDS ImeiTable, SequenceTheorems, TLAPS

-----------------------------------------------------------------------------
(* Lists of ends and objects *)

LEMMA ExtendedFacts ==
    ASSUME NEW ends \in Seq(End), NEW e \in End
    PROVE  /\ Extended(ends, e) \in Seq(End)
           /\ Elements(Extended(ends, e)) \subseteq Elements(ends) \cup {e}
BY DEF Extended, Elements

LEMMA SingletonFacts ==
    ASSUME NEW e \in End
    PROVE  <<e>> \in Seq(End) /\ Elements(<<e>>) = {e}
BY DEF Elements

\* An object added to the heap leaves the others alone.
LEMMA StoredFacts ==
    ASSUME TypeOK, NEW r \in Ref, r \notin DOMAIN heap, NEW rec \in ImeiInfo
    PROVE  /\ DOMAIN Stored(r, rec) = DOMAIN heap \cup {r}
           /\ Stored(r, rec)[r] = rec
           /\ \A x \in DOMAIN heap : Stored(r, rec)[x] = heap[x]
           /\ DOMAIN Stored(r, rec) \subseteq Ref
           /\ Stored(r, rec) \in [DOMAIN Stored(r, rec) -> ImeiInfo]
BY DEF TypeOK, Stored

-----------------------------------------------------------------------------
(* What the actions have in common *)

\* An answer changes the inserter's own variables only, and makes it idle.
LEMMA AnswerFacts ==
    ASSUME TypeOK, NEW i \in Inserter, NEW r \in Reply, Answer(i, r)
    PROVE  /\ pc' \in [Inserter -> {"idle", "lookup", "check", "append",
                                    "assign", "save"}]
           /\ req' \in [Inserter -> Request \cup {Nil}]
           /\ info' \in [Inserter -> Ref \cup {Nil}]
           /\ newEnds' \in [Inserter -> Seq(End)]
           /\ reply' \in [Inserter -> Reply]
           /\ pc'[i] = "idle"
           /\ \A j \in Inserter \ {i} :
                 /\ pc'[j] = pc[j]
                 /\ req'[j] = req[j]
                 /\ info'[j] = info[j]
                 /\ newEnds'[j] = newEnds[j]
BY DEF TypeOK, Answer

LEMMA FailType ==
    ASSUME TypeOK, NEW kind, Fail(kind) \/ UNCHANGED faults
    PROVE  faults' \in 0..MaxFaults
BY BoundAssumption DEF TypeOK, Fail

\* A step that answers and stores nothing.
LEMMA AnswerStep ==
    ASSUME AskedInv, NEW i \in Inserter, NEW r \in Reply, Answer(i, r),
           UNCHANGED <<imeiData, heap, number, asked>>,
           submitted' \in {submitted} \cup {submitted + 1},
           submitted' \in 0..MaxRequests, faults' \in 0..MaxFaults,
           UNCHANGED copyOnRead, disturbed' \in BOOLEAN
    PROVE  AskedInv'
<1>0. /\ TypeOK
      /\ pc'[i] = "idle"
      /\ \A j \in Inserter \ {i} : pc'[j] = pc[j]
  BY AnswerFacts DEF AskedInv
<1>1. TypeOK'
  BY AnswerFacts DEF AskedInv, TypeOK
<1>2. 1..submitted \subseteq 1..submitted'
  BY DEF AskedInv, TypeOK
<1>3. ASSUME NEW j \in Inserter PROVE TaskOK(j)'
  BY <1>2, AnswerFacts DEF AskedInv, TaskOK, Asking
<1>4. \A j, k \in Inserter :
         j # k /\ pc'[j] = "lookup" /\ pc'[k] = "lookup" =>
             number'[j] # number'[k]
  <2>1. \A j, k \in Inserter :
           j # k /\ pc[j] = "lookup" /\ pc[k] = "lookup" =>
               number[j] # number[k]
    BY DEF AskedInv
  <2>2. \A j \in Inserter : pc'[j] = "lookup" => j # i /\ pc[j] = "lookup"
    BY <1>0
  <2> QED
    BY <2>1, <2>2
<1> QED
  BY <1>1, <1>2, <1>3, <1>4 DEF AskedInv, Row, Asking

-----------------------------------------------------------------------------
(* The inductive step *)

LEMMA InitAsked == Init => AskedInv
<1> SUFFICES ASSUME Init PROVE AskedInv
  OBVIOUS
<1>1. /\ DOMAIN heap = {} /\ heap \in [DOMAIN heap -> ImeiInfo]
      /\ DOMAIN imeiData = {} /\ imeiData \in [DOMAIN imeiData -> DOMAIN heap]
  BY DEF Init
<1>2. copyOnRead \in BOOLEAN /\ disturbed \in BOOLEAN
  BY DEF Init
<1>3. /\ pc \in [Inserter -> {"idle", "lookup", "check", "append", "assign",
                              "save"}]
      /\ reply \in [Inserter -> Reply]
      /\ req \in [Inserter -> Request \cup {Nil}]
      /\ info \in [Inserter -> Ref \cup {Nil}]
      /\ newEnds \in [Inserter -> Seq(End)]
  BY DEF Init, Reply
<1>4. /\ number \in [Inserter -> 0..MaxRequests]
      /\ submitted \in 0..MaxRequests /\ faults \in 0..MaxFaults
  BY BoundAssumption DEF Init
<1>5. TypeOK
  BY <1>1, <1>2, <1>3, <1>4 DEF Init, TypeOK
<1> QED
  BY <1>1, <1>5 DEF Init, AskedInv, TaskOK

LEMMA NextAsked == AskedInv /\ [Next]_vars => AskedInv'
<1> SUFFICES ASSUME AskedInv, [Next]_vars PROVE AskedInv'
  OBVIOUS
<1> USE DEF Row, Asking
<1>t. TypeOK
  BY DEF AskedInv
<1>u. copyOnRead' = copyOnRead /\ disturbed' \in BOOLEAN
  BY <1>t DEF Next, vars, TypeOK
<1> USE <1>u
<1>1. ASSUME NEW i \in Inserter, NEW r \in Request, Submit(i, r)
      PROVE  AskedInv'
  <2>1. /\ TypeOK'
        /\ submitted' = submitted + 1
        /\ 1..submitted \subseteq 1..submitted'
        /\ submitted + 1 \in 1..submitted'
        /\ submitted + 1 \notin 1..submitted
    BY <1>1, <1>t, BoundAssumption DEF Submit, TypeOK, Reply
  <2>2. ASSUME NEW j \in Inserter PROVE TaskOK(j)'
    <3>1. CASE j = i
      BY <1>1, <1>t, <2>1, <3>1 DEF Submit, AskedInv, TaskOK, TypeOK
    <3>2. CASE j # i
      BY <1>1, <1>t, <2>1, <3>2 DEF Submit, AskedInv, TaskOK, TypeOK
    <3> QED
      BY <3>1, <3>2
  <2>3. \A j, k \in Inserter :
           j # k /\ pc'[j] = "lookup" /\ pc'[k] = "lookup" =>
               number'[j] # number'[k]
    BY <1>1, <1>t, <2>1 DEF Submit, AskedInv, TaskOK, TypeOK
  <2> QED
    BY <1>1, <2>1, <2>2, <2>3 DEF Submit, AskedInv
<1>2. ASSUME NEW i \in Inserter, SubmitInvalid(i)
      PROVE  AskedInv'
  <2>1. /\ submitted' = submitted + 1
        /\ submitted' \in 0..MaxRequests
        /\ faults' \in 0..MaxFaults
    BY <1>2, <1>t, BoundAssumption DEF SubmitInvalid, TypeOK
  <2>2. "invalid" \in Reply
    BY DEF Reply
  <2>3. Answer(i, "invalid") /\ UNCHANGED <<imeiData, heap, number, asked>>
    BY <1>2 DEF SubmitInvalid
  <2> QED
    BY <2>1, <2>2, <2>3, AnswerStep
<1>3. ASSUME NEW i \in Inserter, LookupHit(i)
      PROVE  AskedInv'
  <2> DEFINE stored == imeiData[req[i].start]
  <2>1. /\ req[i].start \in DOMAIN imeiData
        /\ stored \in DOMAIN heap
        /\ heap[stored] \in ImeiInfo
        /\ heap[stored].StartIMEI = req[i].start
        /\ number[i] \in 1..submitted
        /\ number[i] \in Ref
        /\ number[i] \notin DOMAIN heap
    BY <1>3, <1>t, BoundAssumption
       DEF LookupHit, AskedInv, TaskOK, TypeOK, Ref
  <2>2. \/ heap' = Stored(number[i], heap[stored]) /\ info'[i] = number[i]
        \/ heap' = heap /\ info'[i] = stored
    BY <1>3, <1>t DEF LookupHit, TypeOK
  <2>3. /\ DOMAIN heap \subseteq DOMAIN heap'
        /\ DOMAIN heap' \subseteq DOMAIN heap \cup {number[i]}
        /\ \A x \in DOMAIN heap : heap'[x] = heap[x]
        /\ \A x \in DOMAIN heap' : x \notin DOMAIN heap =>
              heap'[x] = heap[stored]
        /\ info'[i] \in DOMAIN heap'
        /\ heap'[info'[i]] = heap[stored]
        /\ DOMAIN heap' \subseteq Ref
        /\ heap' \in [DOMAIN heap' -> ImeiInfo]
    <3>1. /\ DOMAIN Stored(number[i], heap[stored]) =
                DOMAIN heap \cup {number[i]}
          /\ Stored(number[i], heap[stored])[number[i]] = heap[stored]
          /\ \A x \in DOMAIN heap :
                Stored(number[i], heap[stored])[x] = heap[x]
          /\ DOMAIN Stored(number[i], heap[stored]) \subseteq Ref
          /\ Stored(number[i], heap[stored]) \in
                [DOMAIN Stored(number[i], heap[stored]) -> ImeiInfo]
      BY <1>t, <2>1, StoredFacts
    <3>2. CASE heap' = Stored(number[i], heap[stored]) /\ info'[i] = number[i]
      BY <2>1, <3>1, <3>2
    <3>3. CASE heap' = heap /\ info'[i] = stored
      BY <1>t, <2>1, <3>3 DEF TypeOK
    <3> QED
      BY <2>2, <3>2, <3>3
  <2>4. TypeOK'
    BY <1>3, <1>t, <2>1, <2>3 DEF LookupHit, TypeOK
  <2>5. ASSUME NEW j \in Inserter PROVE TaskOK(j)'
    <3>1. CASE j = i
      BY <1>3, <1>t, <2>1, <2>3, <3>1
         DEF LookupHit, AskedInv, TaskOK, TypeOK
    <3>2. CASE j # i
      BY <1>3, <1>t, <2>1, <2>3, <3>2
         DEF LookupHit, AskedInv, TaskOK, TypeOK
    <3> QED
      BY <3>1, <3>2
  <2>6. \A r \in DOMAIN heap' : \A e \in Elements(heap'[r].EndIMEI) :
           Asking(heap'[r], e) \in asked
    BY <2>1, <2>3 DEF AskedInv
  <2> QED
    BY <1>3, <1>t, <2>1, <2>3, <2>4, <2>5, <2>6
       DEF LookupHit, AskedInv, TypeOK
<1>4. ASSUME NEW i \in Inserter, LookupMiss(i)
      PROVE  AskedInv'
  <2> DEFINE rec == [StartIMEI |-> req[i].start, Color |-> req[i].Color,
                     EndIMEI |-> <<req[i].end>>]
  <2>1. /\ req[i] \in asked
        /\ req[i] \in Request
        /\ number[i] \in 1..submitted
        /\ number[i] \in Ref
        /\ number[i] \notin DOMAIN heap
    BY <1>4, <1>t, BoundAssumption
       DEF LookupMiss, AskedInv, TaskOK, TypeOK, Ref
  <2>2. rec \in ImeiInfo /\ Elements(rec.EndIMEI) = {req[i].end}
    BY <2>1, SingletonFacts DEF Request, ImeiInfo
  <2>3. heap' = Stored(number[i], rec)
    BY <1>4 DEF LookupMiss
  <2>4. /\ DOMAIN heap' = DOMAIN heap \cup {number[i]}
        /\ heap'[number[i]] = rec
        /\ \A x \in DOMAIN heap : heap'[x] = heap[x]
        /\ DOMAIN heap' \subseteq Ref
        /\ heap' \in [DOMAIN heap' -> ImeiInfo]
    <3> HIDE DEF rec
    <3>1. TypeOK /\ number[i] \in Ref /\ number[i] \notin DOMAIN heap /\ rec \in ImeiInfo
      BY <1>t, <2>1, <2>2
    <3>2. /\ DOMAIN Stored(number[i], rec) = DOMAIN heap \cup {number[i]}
          /\ Stored(number[i], rec)[number[i]] = rec
          /\ \A x \in DOMAIN heap : Stored(number[i], rec)[x] = heap[x]
          /\ DOMAIN Stored(number[i], rec) \subseteq Ref
          /\ Stored(number[i], rec) \in [DOMAIN Stored(number[i], rec) -> ImeiInfo]
      BY <3>1, StoredFacts
    <3> QED
      BY <2>3, <3>2
  <2>5. TypeOK'
    BY <1>4, <1>t, <2>1, <2>4, FailType DEF LookupMiss, TypeOK
  <2>6. ASSUME NEW j \in Inserter PROVE TaskOK(j)'
    <3>1. CASE j = i
      BY <1>4, <1>t, <2>1, <2>4, <3>1
         DEF LookupMiss, AskedInv, TaskOK, TypeOK
    <3>2. CASE j # i
      BY <1>4, <1>t, <2>1, <2>4, <3>2
         DEF LookupMiss, AskedInv, TaskOK, TypeOK
    <3> QED
      BY <3>1, <3>2
  <2>7. Asking(rec, req[i].end) = req[i]
    BY <2>1 DEF Request
  <2>8. \A r \in DOMAIN heap' : \A e \in Elements(heap'[r].EndIMEI) :
           Asking(heap'[r], e) \in asked
    BY <2>1, <2>2, <2>4, <2>7 DEF AskedInv
  <2> QED
    BY <1>4, <1>t, <2>1, <2>4, <2>5, <2>6, <2>8
       DEF LookupMiss, AskedInv, TypeOK
<1>5. ASSUME NEW i \in Inserter, CheckColor(i) \/ CheckEnds(i)
      PROVE  AskedInv'
  <2>1. PICK r \in Reply : Answer(i, r)
    BY <1>5 DEF CheckColor, CheckEnds, Reply
  <2> QED
    BY <1>5, <1>t, <2>1, AnswerStep DEF CheckColor, CheckEnds, TypeOK
<1>6. ASSUME NEW i \in Inserter, CheckPasses(i)
      PROVE  AskedInv'
  <2>1. TypeOK'
    BY <1>6, <1>t DEF CheckPasses, TypeOK
  <2>2. ASSUME NEW j \in Inserter PROVE TaskOK(j)'
    BY <1>6, <1>t DEF CheckPasses, AskedInv, TaskOK, TypeOK
  <2> QED
    BY <1>6, <1>t, <2>1, <2>2 DEF CheckPasses, AskedInv, TypeOK
<1>7. ASSUME NEW i \in Inserter, ExtendEnds(i)
      PROVE  AskedInv'
  <2>1. /\ req[i] \in asked
        /\ req[i] \in Request
        /\ req[i].end \in End
        /\ info[i] \in DOMAIN heap
        /\ heap[info[i]] \in ImeiInfo
        /\ heap[info[i]].EndIMEI \in Seq(End)
        /\ heap[info[i]].StartIMEI = req[i].start
        /\ heap[info[i]].Color = req[i].Color
    BY <1>7, <1>t
       DEF ExtendEnds, AskedInv, TaskOK, TypeOK, ImeiInfo, Request
  <2>2. /\ newEnds'[i] \in Seq(End)
        /\ Elements(newEnds'[i]) \subseteq
              Elements(heap[info[i]].EndIMEI) \cup {req[i].end}
    BY <1>7, <1>t, <2>1, ExtendedFacts DEF ExtendEnds, TypeOK
  <2>3. TypeOK'
    BY <1>7, <1>t, <2>2 DEF ExtendEnds, TypeOK
  <2>4. Asking(heap[info[i]], req[i].end) = req[i]
    BY <2>1 DEF Request
  <2>5. \A e \in Elements(newEnds'[i]) : Asking(heap[info[i]], e) \in asked
    BY <2>1, <2>2, <2>4 DEF AskedInv
  <2>6. ASSUME NEW j \in Inserter PROVE TaskOK(j)'
    <3>1. CASE j = i
      BY <1>7, <1>t, <2>1, <2>5, <3>1
         DEF ExtendEnds, AskedInv, TaskOK, TypeOK
    <3>2. CASE j # i
      BY <1>7, <1>t, <3>2 DEF ExtendEnds, AskedInv, TaskOK, TypeOK
    <3> QED
      BY <3>1, <3>2
  <2> QED
    BY <1>7, <1>t, <2>3, <2>6 DEF ExtendEnds, AskedInv, TypeOK
<1>8. ASSUME NEW i \in Inserter, AssignEnds(i)
      PROVE  AskedInv'
  <2>1. /\ info[i] \in DOMAIN heap
        /\ heap[info[i]] \in ImeiInfo
        /\ newEnds[i] \in Seq(End)
        /\ \A e \in Elements(newEnds[i]) : Asking(heap[info[i]], e) \in asked
    BY <1>8, <1>t DEF AssignEnds, AskedInv, TaskOK, TypeOK
  <2>2. /\ DOMAIN heap' = DOMAIN heap
        /\ \A x \in DOMAIN heap :
              /\ heap'[x] \in ImeiInfo
              /\ heap'[x].StartIMEI = heap[x].StartIMEI
              /\ heap'[x].Color = heap[x].Color
              /\ heap'[x].EndIMEI = IF x = info[i] THEN newEnds[i]
                                    ELSE heap[x].EndIMEI
    BY <1>8, <1>t, <2>1 DEF AssignEnds, TypeOK, ImeiInfo
  <2>3. heap' \in [DOMAIN heap' -> ImeiInfo]
    BY <1>8, <1>t, <2>2 DEF AssignEnds, TypeOK
  <2>4. TypeOK'
    BY <1>8, <1>t, <2>2, <2>3 DEF AssignEnds, TypeOK
  <2>5. ASSUME NEW j \in Inserter PROVE TaskOK(j)'
    BY <1>8, <1>t, <2>1, <2>2 DEF AssignEnds, AskedInv, TaskOK, TypeOK
  <2>6. \A r \in DOMAIN heap' : \A e \in Elements(heap'[r].EndIMEI) :
           Asking(heap'[r], e) \in asked
    BY <2>1, <2>2 DEF AskedInv
  <2> QED
    BY <1>8, <1>t, <2>2, <2>4, <2>5, <2>6 DEF AssignEnds, AskedInv, TypeOK
<1>9. ASSUME NEW i \in Inserter, Save(i)
      PROVE  AskedInv'
  <2>1. /\ req[i] \in Request
        /\ req[i].start \in Start
        /\ info[i] \in DOMAIN heap
        /\ heap[info[i]].StartIMEI = req[i].start
    BY <1>9, <1>t DEF Save, AskedInv, TaskOK, TypeOK, Request
  <2>a. /\ pc'[i] = "idle"
        /\ \A j \in Inserter \ {i} :
              /\ pc'[j] = pc[j]
              /\ req'[j] = req[j]
              /\ info'[j] = info[j]
              /\ newEnds'[j] = newEnds[j]
        /\ UNCHANGED <<heap, number, asked, submitted, faults>>
    BY <1>9, <1>t, AnswerFacts DEF Save, Reply
  <2>2. /\ DOMAIN imeiData' = DOMAIN imeiData \cup {req[i].start}
        /\ imeiData' \in [DOMAIN imeiData' -> DOMAIN heap]
        /\ DOMAIN imeiData' \subseteq Start
        /\ \A s \in DOMAIN imeiData' : heap[imeiData'[s]].StartIMEI = s
    BY <1>9, <1>t, <2>1 DEF Save, AskedInv, TypeOK
  <2>3. TypeOK'
    BY <1>9, <1>t, <2>2, AnswerFacts DEF Save, TypeOK, Reply
  <2>4. ASSUME NEW j \in Inserter PROVE TaskOK(j)'
    BY <2>a DEF AskedInv, TaskOK
  <2>5. \A j, k \in Inserter :
           j # k /\ pc'[j] = "lookup" /\ pc'[k] = "lookup" =>
               number'[j] # number'[k]
    BY <2>a DEF AskedInv
  <2> QED
    BY <1>9, <2>2, <2>3, <2>4, <2>5 DEF Save, AskedInv
<1>10. ASSUME NEW i \in Inserter, SaveFails(i)
       PROVE  AskedInv'
  <2>1. faults' \in 0..MaxFaults
    BY <1>10, <1>t, FailType DEF SaveFails
  <2> QED
    BY <1>10, <1>t, <2>1, AnswerStep DEF SaveFails, TypeOK, Reply
<1>11. CASE UNCHANGED vars
  BY <1>11 DEF vars, table, AskedInv, TypeOK, TaskOK
<1> QED
  BY <1>1, <1>2, <1>3, <1>4, <1>5, <1>6, <1>7, <1>8, <1>9, <1>10, <1>11
     DEF Next, InsertImei

-----------------------------------------------------------------------------
(* Theorems *)

\* Provisioning keeps the type of every variable: a row always points to an
\* object that exists, in either repository.
THEOREM TypeCorrect == Spec => []TypeOK
<1>1. AskedInv => TypeOK
  BY DEF AskedInv
<1> QED
  BY <1>1, InitAsked, NextAsked, PTL DEF Spec

\* However inserts interleave and whichever calls fail, an IMEI on record was
\* asked for in the colour it is recorded with.
THEOREM ColorsAsked == Spec => []ColorAsked
<1>1. AskedInv => ColorAsked
  BY DEF AskedInv, ColorAsked, TypeOK, Row, Asking
<1> QED
  BY <1>1, InitAsked, NextAsked, PTL DEF Spec

-----------------------------------------------------------------------------
(* Whose object an inserter holds *)

Past(i) == pc[i] \notin {"idle", "lookup"}

\* Requests in progress have different numbers, none of which names an object
\* on record or held by another; over a database an inserter holds the object
\* of its own number.
NumbersInv ==
    /\ \A i \in Inserter : pc[i] # "idle" =>
          /\ number[i] \in 1..submitted
          /\ \A s \in DOMAIN imeiData : imeiData[s] # number[i]
    /\ \A i, j \in Inserter : i # j /\ pc[i] # "idle" /\ pc[j] # "idle" =>
          /\ number[i] # number[j]
          /\ Past(i) => info[i] # number[j]
    /\ copyOnRead => \A i \in Inserter : Past(i) => info[i] = number[i]

\* An inserter's step leaves the variables of the others alone.
LEMMA Frame ==
    ASSUME TypeOK, NEW i \in Inserter,
           \/ \E r \in Request : Submit(i, r)
           \/ SubmitInvalid(i)
           \/ InsertImei(i)
    PROVE  \A j \in Inserter \ {i} :
              /\ pc'[j] = pc[j]
              /\ req'[j] = req[j]
              /\ number'[j] = number[j]
              /\ info'[j] = info[j]
              /\ newEnds'[j] = newEnds[j]
BY DEF TypeOK, Submit, SubmitInvalid, InsertImei, LookupHit, LookupMiss,
       CheckColor, CheckEnds, CheckPasses, ExtendEnds, AssignEnds, Save,
       SaveFails, Answer

LEMMA NextNumbers == AskedInv /\ NumbersInv /\ [Next]_vars => NumbersInv'
<1> SUFFICES ASSUME AskedInv, NumbersInv, [Next]_vars PROVE NumbersInv'
  OBVIOUS
<1>t. TypeOK
  BY DEF AskedInv
<1>u. copyOnRead' = copyOnRead
  BY DEF Next, vars
<1>h. /\ submitted \in Nat
      /\ \A s \in DOMAIN imeiData : imeiData[s] \in 1..submitted
      /\ \A i \in Inserter : Past(i) => info[i] \in 1..submitted
  BY <1>t DEF AskedInv, TypeOK, TaskOK, Past
<1>1. ASSUME NEW i \in Inserter, NEW r \in Request, Submit(i, r)
      PROVE  NumbersInv'
  <2>1. \A j \in Inserter \ {i} : /\ pc'[j] = pc[j] /\ number'[j] = number[j]
                                  /\ info'[j] = info[j]
    BY <1>1, <1>t, Frame
  <2>2. /\ number'[i] = submitted + 1 /\ submitted' = submitted + 1
        /\ pc'[i] = "lookup" /\ imeiData' = imeiData
    BY <1>1, <1>t DEF Submit, TypeOK
  <2> QED
    BY <1>u, <1>h, <2>1, <2>2 DEF NumbersInv, Past
<1>2. ASSUME NEW i \in Inserter,
             SubmitInvalid(i) \/ CheckColor(i) \/ CheckEnds(i) \/ SaveFails(i)
      PROVE  NumbersInv'
  <2>1. \A j \in Inserter \ {i} : /\ pc'[j] = pc[j] /\ number'[j] = number[j]
                                  /\ info'[j] = info[j]
    BY <1>2, <1>t, Frame DEF InsertImei
  <2>2. /\ pc'[i] = "idle" /\ imeiData' = imeiData
        /\ submitted' = submitted \/ submitted' = submitted + 1
    BY <1>2, <1>t
       DEF SubmitInvalid, CheckColor, CheckEnds, SaveFails, Answer, TypeOK
  <2> QED
    BY <1>u, <1>h, <2>1, <2>2 DEF NumbersInv, Past
<1>3. ASSUME NEW i \in Inserter, LookupHit(i) \/ LookupMiss(i)
      PROVE  NumbersInv'
  <2>1. \A j \in Inserter \ {i} : /\ pc'[j] = pc[j] /\ info'[j] = info[j]
    BY <1>3, <1>t, Frame DEF InsertImei
  <2>2. /\ pc[i] = "lookup" /\ pc'[i] \in {"check", "save"}
        /\ UNCHANGED <<imeiData, number, submitted>>
    BY <1>3, <1>t DEF LookupHit, LookupMiss, TypeOK
  <2>3. \/ info'[i] = number[i]
        \/ /\ ~copyOnRead
           /\ \E s \in DOMAIN imeiData : info'[i] = imeiData[s]
    BY <1>3, <1>t DEF LookupHit, LookupMiss, TypeOK
  <2> QED
    BY <1>u, <2>1, <2>2, <2>3 DEF NumbersInv, Past
<1>4. ASSUME NEW i \in Inserter, CheckPasses(i) \/ ExtendEnds(i) \/ AssignEnds(i)
      PROVE  NumbersInv'
  <2>1. \A j \in Inserter \ {i} : pc'[j] = pc[j]
    BY <1>4, <1>t, Frame DEF InsertImei
  <2>2. /\ Past(i) /\ pc'[i] \in {"append", "assign", "save"}
        /\ UNCHANGED <<imeiData, number, info, submitted>>
    BY <1>4, <1>t DEF CheckPasses, ExtendEnds, AssignEnds, TypeOK, Past
  <2> QED
    BY <1>u, <2>1, <2>2 DEF NumbersInv, Past
<1>5. ASSUME NEW i \in Inserter, Save(i)
      PROVE  NumbersInv'
  <2>1. \A j \in Inserter \ {i} : pc'[j] = pc[j] /\ info'[j] = info[j]
    BY <1>5, <1>t, Frame DEF InsertImei
  <2>2. /\ Past(i) /\ pc'[i] = "idle" /\ UNCHANGED <<number, submitted>>
        /\ \A s \in DOMAIN imeiData' :
              \/ imeiData'[s] = info[i]
              \/ s \in DOMAIN imeiData /\ imeiData'[s] = imeiData[s]
    BY <1>5, <1>t DEF Save, Answer, TypeOK, Past
  <2> QED
    BY <1>u, <2>1, <2>2 DEF NumbersInv, Past
<1>6. CASE UNCHANGED vars
  BY <1>6 DEF vars, table, NumbersInv, Past
<1> QED
  BY <1>1, <1>2, <1>3, <1>4, <1>5, <1>6 DEF Next, InsertImei

-----------------------------------------------------------------------------
(* Lists without duplicates *)

Distinct(ends) == \A m, n \in 1..Len(ends) : ends[m] = ends[n] => m = n

\* A new end keeps a list distinct, and changes the set of ends as the
\* registry does: alone on the list, the blank end gives way.
LEMMA ExtendedDistinct ==
    ASSUME NEW ends \in Seq(End), NEW e \in End,
           Distinct(ends), e \notin Elements(ends)
    PROVE  /\ Distinct(Extended(ends, e))
           /\ Elements(Extended(ends, e))
                 = (Elements(ends) \cup {e})
                   \ (IF Elements(ends) = {Blank} THEN {Blank} ELSE {})
<1>1. CASE ends = <<Blank>>
  <2>1. Elements(ends) = {Blank} /\ Extended(ends, e) = <<e>>
    BY <1>1, BlankAssumption, SingletonFacts DEF Extended
  <2> QED
    BY <2>1, SingletonFacts DEF Distinct
<1>2. CASE ends # <<Blank>>
  <2>1. Extended(ends, e) = Append(ends, e)
    BY <1>2 DEF Extended
  <2>2. /\ Len(Append(ends, e)) = Len(ends) + 1
        /\ \A n \in 1..Len(ends) : Append(ends, e)[n] = ends[n]
        /\ Append(ends, e)[Len(ends) + 1] = e
        /\ Len(ends) \in Nat
    OBVIOUS
  <2>3. Distinct(Append(ends, e))
    BY <2>2 DEF Distinct, Elements
  <2>4. Elements(Append(ends, e)) = Elements(ends) \cup {e}
    BY <2>2 DEF Elements
  <2>5. Elements(ends) # {Blank}
    <3> SUFFICES ASSUME Elements(ends) = {Blank} PROVE FALSE
      OBVIOUS
    <3>1. \A n \in 1..Len(ends) : ends[n] = Blank
      BY DEF Elements
    <3>2. Len(ends) # 0
      <4>1. PICK n \in 1..Len(ends) : ends[n] = Blank
        BY DEF Elements
      <4> QED
        BY <2>2, <4>1
    <3>3. Len(ends) = 1
      <4>1. Len(ends) > 1 => 1 \in 1..Len(ends) /\ 2 \in 1..Len(ends)
        BY <2>2
      <4>2. Len(ends) <= 1
        BY <2>2, <3>1, <4>1 DEF Distinct
      <4>3. Len(ends) \in Nat
        OBVIOUS
      <4>4. \A k \in Nat : k # 0 /\ k <= 1 => k = 1
        OBVIOUS
      <4> QED
        BY <3>2, <4>2, <4>3, <4>4, Zenon
    <3>4. ends = <<Blank>>
      <4>1. /\ <<Blank>> \in Seq(End) /\ Len(<<Blank>>) = 1
            /\ <<Blank>>[1] = Blank
        BY BlankAssumption
      <4>2. \A n \in 1..Len(ends) : ends[n] = <<Blank>>[n]
        BY <3>1, <3>3, <4>1
      <4> QED
        BY <3>3, <4>1, <4>2, SeqEqual
    <3> QED
      BY <1>2, <3>4
  <2> QED
    BY <2>1, <2>3, <2>4, <2>5
<1> QED
  BY <1>1, <1>2

\* Over a database, or while inserts do not overlap, no list has duplicates:
\* the end that was looked for in a list is still missing when it is added.
DistinctInv ==
    /\ ~disturbed => ~Overlap
    /\ copyOnRead \/ ~disturbed =>
          /\ \A r \in DOMAIN heap : Distinct(heap[r].EndIMEI)
          /\ \A i \in Inserter :
                /\ pc[i] = "append" =>
                      req[i].end \notin Elements(heap[info[i]].EndIMEI)
                /\ pc[i] = "assign" => Distinct(newEnds[i])

LEMMA NextDistinct ==
    AskedInv /\ NumbersInv /\ DistinctInv /\ [Next]_vars => DistinctInv'
<1> SUFFICES ASSUME AskedInv, NumbersInv, DistinctInv, [Next]_vars
             PROVE  DistinctInv'
  OBVIOUS
<1>t. TypeOK
  BY DEF AskedInv
<1>i. CASE UNCHANGED vars
  BY <1>i DEF vars, table, DistinctInv, Overlap
<1>n. CASE Next
  <2>1. PICK i \in Inserter :
          \/ \E r \in Request : Submit(i, r)
          \/ SubmitInvalid(i)
          \/ InsertImei(i)
    BY <1>n DEF Next
  <2>2. /\ copyOnRead' = copyOnRead
        /\ ~disturbed' => ~disturbed /\ ~Overlap'
    BY <1>n DEF Next
  <2>3. \A j \in Inserter \ {i} :
           /\ pc'[j] = pc[j] /\ req'[j] = req[j]
           /\ info'[j] = info[j] /\ newEnds'[j] = newEnds[j]
    BY <1>t, <2>1, Frame
  <2> SUFFICES ASSUME copyOnRead \/ ~disturbed'
               PROVE  /\ \A r \in DOMAIN heap' : Distinct(heap'[r].EndIMEI)
                      /\ \A j \in Inserter :
                            /\ pc'[j] = "append" =>
                                  req'[j].end \notin
                                     Elements(heap'[info'[j]].EndIMEI)
                            /\ pc'[j] = "assign" => Distinct(newEnds'[j])
    BY <2>2 DEF DistinctInv
  <2>4. /\ \A r \in DOMAIN heap : Distinct(heap[r].EndIMEI)
        /\ \A j \in Inserter :
              /\ pc[j] = "append" =>
                    req[j].end \notin Elements(heap[info[j]].EndIMEI)
              /\ pc[j] = "assign" => Distinct(newEnds[j])
    BY <2>2 DEF DistinctInv
  <2>5. \A j \in Inserter : pc[j] = "append" => info[j] \in DOMAIN heap
    BY DEF AskedInv, TaskOK
  <2>6. CASE \/ \E r \in Request : Submit(i, r)
             \/ SubmitInvalid(i) \/ CheckColor(i) \/ CheckEnds(i)
             \/ Save(i) \/ SaveFails(i)
    <3>1. heap' = heap /\ pc'[i] \in {"idle", "lookup"}
      BY <1>t, <2>6 DEF Submit, SubmitInvalid, CheckColor, CheckEnds, Save,
                        SaveFails, Answer, TypeOK
    <3> QED
      BY <2>3, <2>4, <3>1
  <2>7. CASE LookupHit(i) \/ LookupMiss(i)
    <3>1. /\ pc'[i] \in {"check", "save"}
          /\ \A x \in DOMAIN heap : x \in DOMAIN heap' /\ heap'[x] = heap[x]
          /\ \A x \in DOMAIN heap' \ DOMAIN heap :
                \/ \E y \in DOMAIN heap : heap'[x] = heap[y]
                \/ heap'[x].EndIMEI = <<req[i].end>>
      <4>1. number[i] \notin DOMAIN heap
        BY <2>7 DEF LookupHit, LookupMiss, AskedInv, TaskOK
      <4>2. pc'[i] \in {"check", "save"}
        BY <1>t, <2>7 DEF LookupHit, LookupMiss, TypeOK
      <4>a. \A rec : /\ DOMAIN Stored(number[i], rec) = DOMAIN heap \cup {number[i]}
                     /\ Stored(number[i], rec)[number[i]] = rec
                     /\ \A x \in DOMAIN heap :
                           Stored(number[i], rec)[x] = heap[x]
        BY <4>1 DEF Stored
      <4>3. CASE LookupHit(i)
        <5>1. imeiData[req[i].start] \in DOMAIN heap
          BY <1>t, <4>3 DEF LookupHit, TypeOK
        <5>2. \/ heap' = Stored(number[i], heap[imeiData[req[i].start]])
              \/ heap' = heap
          BY <4>3 DEF LookupHit
        <5> QED
          BY <4>1, <4>2, <4>a, <5>1, <5>2
      <4>4. CASE LookupMiss(i)
        <5> DEFINE rec == [StartIMEI |-> req[i].start, Color |-> req[i].Color,
                           EndIMEI |-> <<req[i].end>>]
        <5>1. heap' = Stored(number[i], rec)
          BY <4>4 DEF LookupMiss
        <5>2. rec.EndIMEI = <<req[i].end>>
          OBVIOUS
        <5> HIDE DEF rec
        <5> QED
          BY <4>1, <4>2, <4>a, <5>1, <5>2
      <4> QED
        BY <2>7, <4>3, <4>4
    <3>2. \A e : Distinct(<<e>>)
      BY DEF Distinct
    <3>3. \A r \in DOMAIN heap' : Distinct(heap'[r].EndIMEI)
      BY <2>4, <3>1, <3>2
    <3> QED
      BY <2>3, <2>4, <2>5, <3>1, <3>3
  <2>8. CASE CheckPasses(i)
    BY <1>t, <2>3, <2>4, <2>8 DEF CheckPasses, TypeOK
  <2>9. CASE ExtendEnds(i)
    <3>1. /\ info[i] \in DOMAIN heap /\ req[i].end \in End
          /\ heap[info[i]].EndIMEI \in Seq(End)
      BY <1>t, <2>9
         DEF ExtendEnds, AskedInv, TaskOK, TypeOK, ImeiInfo, Request
    <3>2. /\ heap' = heap /\ pc[i] = "append" /\ pc'[i] = "assign"
          /\ newEnds'[i] = Extended(heap[info[i]].EndIMEI, req[i].end)
      BY <1>t, <2>9 DEF ExtendEnds, TypeOK
    <3>3. Distinct(newEnds'[i])
      BY <2>4, <3>1, <3>2, ExtendedDistinct
    <3> QED
      BY <2>3, <2>4, <3>2, <3>3
  <2>10. CASE AssignEnds(i)
    <3>1. /\ pc[i] = "assign" /\ pc'[i] = "save" /\ info[i] \in DOMAIN heap
          /\ heap' = [heap EXCEPT ![info[i]].EndIMEI = newEnds[i]]
      BY <1>t, <2>10 DEF AssignEnds, AskedInv, TaskOK, TypeOK
    <3>2. /\ DOMAIN heap' = DOMAIN heap
          /\ heap'[info[i]].EndIMEI = newEnds[i]
          /\ \A x \in DOMAIN heap \ {info[i]} : heap'[x] = heap[x]
      BY <1>t, <3>1 DEF TypeOK, ImeiInfo
    <3>3. \A j \in Inserter \ {i} : pc[j] = "append" => info[j] # info[i]
      <4> SUFFICES ASSUME NEW j \in Inserter \ {i}, pc[j] = "append"
                   PROVE  info[j] # info[i]
        OBVIOUS
      <4>1. CASE copyOnRead
        BY <3>1, <4>1 DEF NumbersInv, Past
      <4>2. CASE ~disturbed'
        BY <2>2, <2>3, <3>1, <4>2 DEF Overlap
      <4> QED
        BY <4>1, <4>2
    <3> QED
      BY <2>3, <2>4, <2>5, <3>1, <3>2, <3>3
  <2> QED
    BY <2>1, <2>6, <2>7, <2>8, <2>9, <2>10 DEF InsertImei
<1> QED
  BY <1>i, <1>n

-----------------------------------------------------------------------------
(* One insert at a time implements the registry *)

\* What an inserter holds while nobody else inserts: in memory the object on
\* record, over a database a copy that equals it, until it is extended.
TaskSeq(i) ==
    LET s == req[i].start IN
    /\ pc[i] \in {"check", "append", "assign"} =>
          /\ s \in DOMAIN imeiData
          /\ heap[info[i]] = Row(s)
          /\ ~copyOnRead => info[i] = imeiData[s]
    /\ pc[i] \in {"append", "assign"} => req[i].end \notin Elements(Row(s).EndIMEI)
    /\ pc[i] = "assign" => newEnds[i] = Extended(Row(s).EndIMEI, req[i].end)
    /\ pc[i] = "save" =>
          \/ s \in DOMAIN imeiData /\ info[i] = imeiData[s]
          \/ /\ s \in DOMAIN imeiData
             /\ req[i].end \notin Elements(Row(s).EndIMEI)
             /\ heap[info[i]].Color = Row(s).Color
             /\ heap[info[i]].EndIMEI = Extended(Row(s).EndIMEI, req[i].end)
          \/ s \notin DOMAIN imeiData /\ heap[info[i]].EndIMEI = <<req[i].end>>

SeqInv == ~disturbed => \A i \in Inserter : TaskSeq(i)

\* The rows stay as they are in every step but two.
LEMMA RowsKept ==
    ASSUME AskedInv, NumbersInv, NEW i \in Inserter,
           \/ \E r \in Request : Submit(i, r)
           \/ SubmitInvalid(i) \/ LookupHit(i) \/ LookupMiss(i)
           \/ CheckColor(i) \/ CheckEnds(i) \/ CheckPasses(i)
           \/ ExtendEnds(i) \/ SaveFails(i)
           \/ AssignEnds(i) /\ copyOnRead
    PROVE  /\ imeiData' = imeiData
           /\ \A s \in DOMAIN imeiData : Row(s)' = Row(s)
<1>t. TypeOK
  BY DEF AskedInv
<1>0. \A s \in DOMAIN imeiData : imeiData[s] \in DOMAIN heap
  BY <1>t DEF TypeOK
<1>1. CASE LookupHit(i) \/ LookupMiss(i)
  <2>1. imeiData' = imeiData
    BY <1>1 DEF LookupHit, LookupMiss
  <2>2. number[i] \notin DOMAIN heap
    BY <1>1 DEF LookupHit, LookupMiss, AskedInv, TaskOK
  <2>3. \A x \in DOMAIN heap : heap'[x] = heap[x]
    BY <1>1, <2>2 DEF LookupHit, LookupMiss, Stored
  <2> QED
    BY <1>0, <2>1, <2>3 DEF Row
<1>2. CASE AssignEnds(i) /\ copyOnRead
  <2>1. /\ imeiData' = imeiData
        /\ heap' = [heap EXCEPT ![info[i]].EndIMEI = newEnds[i]]
    BY <1>2 DEF AssignEnds
  <2>2. \A s \in DOMAIN imeiData : imeiData[s] # info[i]
    BY <1>2 DEF AssignEnds, NumbersInv, Past
  <2> QED
    BY <1>0, <2>1, <2>2 DEF Row
<1>3. CASE \/ \E r \in Request : Submit(i, r)
           \/ SubmitInvalid(i)
           \/ CheckColor(i) \/ CheckEnds(i) \/ CheckPasses(i)
           \/ ExtendEnds(i) \/ SaveFails(i)
  BY <1>3 DEF Submit, SubmitInvalid, CheckColor, CheckEnds, CheckPasses,
              ExtendEnds, SaveFails, Row
<1> QED
  BY <1>1, <1>2, <1>3

LEMMA NextSeq ==
    AskedInv /\ NumbersInv /\ DistinctInv /\ SeqInv /\ [Next]_vars => SeqInv'
<1> SUFFICES ASSUME AskedInv, NumbersInv, DistinctInv, SeqInv, [Next]_vars
             PROVE  SeqInv'
  OBVIOUS
<1>t. TypeOK
  BY DEF AskedInv
<1>i. CASE UNCHANGED vars
  BY <1>i DEF vars, table, SeqInv, TaskSeq, Row
<1>n. CASE Next
  <2>1. PICK i \in Inserter :
          \/ \E r \in Request : Submit(i, r)
          \/ SubmitInvalid(i)
          \/ InsertImei(i)
    BY <1>n DEF Next
  <2> SUFFICES ASSUME ~disturbed', NEW j \in Inserter PROVE TaskSeq(j)'
    BY DEF SeqInv
  <2>2. /\ copyOnRead' = copyOnRead /\ ~disturbed /\ ~Overlap' /\ ~ReadFailed
        /\ ~Overlap /\ TaskSeq(j) /\ TaskSeq(i)
    BY <1>n DEF Next, DistinctInv, SeqInv
  <2>3. CASE j # i
    <3>1. pc'[j] = pc[j] /\ req'[j] = req[j] /\ info'[j] = info[j]
          /\ newEnds'[j] = newEnds[j]
      BY <1>t, <2>1, <2>3, Frame
    <3>2. CASE pc[j] \in {"idle", "lookup"}
      BY <3>1, <3>2 DEF TaskSeq
    <3>3. CASE pc[j] \notin {"idle", "lookup"}
      <4>1. pc[i] = "idle"
        BY <2>2, <2>3, <3>3 DEF Overlap
      <4>2. SubmitInvalid(i) \/ \E r \in Request : Submit(i, r)
        BY <2>1, <4>1 DEF InsertImei, LookupHit, LookupMiss, CheckColor,
                          CheckEnds, CheckPasses, ExtendEnds, AssignEnds, Save,
                          SaveFails
      <4>3. heap' = heap /\ imeiData' = imeiData
        BY <4>2 DEF SubmitInvalid, Submit
      <4> QED
        BY <2>2, <3>1, <4>3 DEF TaskSeq, Row
    <3> QED
      BY <3>2, <3>3
  <2>4. CASE j = i
    <3>1. CASE \/ \E r \in Request : Submit(i, r)
               \/ SubmitInvalid(i) \/ CheckColor(i) \/ CheckEnds(i)
               \/ Save(i) \/ SaveFails(i)
      <4>1. pc'[i] \in {"idle", "lookup"}
        BY <1>t, <3>1 DEF Submit, SubmitInvalid, CheckColor, CheckEnds, Save,
                          SaveFails, Answer, TypeOK
      <4> QED
        BY <2>4, <4>1 DEF TaskSeq
    <3>2. CASE LookupHit(i)
      <4>1. /\ req[i].start \in DOMAIN imeiData
            /\ pc'[i] = "check" /\ req' = req
            /\ number[i] \notin DOMAIN heap
            /\ imeiData[req[i].start] \in DOMAIN heap
        BY <1>t, <3>2 DEF LookupHit, TypeOK, AskedInv, TaskOK
      <4>2. /\ imeiData' = imeiData
            /\ \A s \in DOMAIN imeiData : Row(s)' = Row(s)
        BY <3>2, RowsKept
      <4>3. CASE copyOnRead
        <5>1. /\ heap' = Stored(number[i], heap[imeiData[req[i].start]])
              /\ info'[i] = number[i]
          BY <1>t, <3>2, <4>3 DEF LookupHit, TypeOK
        <5>2. heap'[info'[i]] = heap[imeiData[req[i].start]]
          BY <5>1 DEF Stored
        <5> QED
          BY <2>2, <2>4, <4>1, <4>2, <4>3, <5>2 DEF TaskSeq, Row
      <4>4. CASE ~copyOnRead
        <5>1. heap' = heap /\ info'[i] = imeiData[req[i].start]
          BY <1>t, <3>2, <4>4 DEF LookupHit, TypeOK
        <5> QED
          BY <2>4, <4>1, <4>2, <5>1 DEF TaskSeq, Row
      <4> QED
        BY <4>3, <4>4
    <3>3. CASE LookupMiss(i)
      <4>1. pc[i] = "lookup" /\ pc'[i] = "save" /\ req' = req
            /\ imeiData' = imeiData /\ info'[i] = number[i]
        BY <1>t, <3>3 DEF LookupMiss, TypeOK
      <4>2. req[i].start \notin DOMAIN imeiData
        <5>1. faults' = faults
          BY <2>2, <4>1 DEF ReadFailed
        <5>2. faults \in Nat
          BY <1>t DEF TypeOK
        <5> QED
          BY <3>3, <5>1, <5>2 DEF LookupMiss, Fail
      <4>3. heap'[info'[i]].EndIMEI = <<req[i].end>>
        BY <3>3, <4>1 DEF LookupMiss, Stored
      <4> QED
        BY <2>4, <4>1, <4>2, <4>3 DEF TaskSeq
    <3>4. CASE CheckPasses(i)
      <4>1. /\ pc[i] = "check" /\ pc'[i] = "append"
            /\ req[i].end \notin Elements(heap[info[i]].EndIMEI)
            /\ UNCHANGED <<req, imeiData, heap, info>>
        BY <1>t, <3>4 DEF CheckPasses, TypeOK
      <4> QED
        BY <2>2, <2>4, <4>1 DEF TaskSeq, Row
    <3>5. CASE ExtendEnds(i)
      <4>1. /\ pc[i] = "append" /\ pc'[i] = "assign"
            /\ newEnds'[i] = Extended(heap[info[i]].EndIMEI, req[i].end)
            /\ UNCHANGED <<req, imeiData, heap, info>>
        BY <1>t, <3>5 DEF ExtendEnds, TypeOK
      <4> QED
        BY <2>2, <2>4, <4>1 DEF TaskSeq, Row
    <3>6. CASE AssignEnds(i)
      <4>1. /\ pc[i] = "assign" /\ pc'[i] = "save"
            /\ info[i] \in DOMAIN heap /\ heap[info[i]] \in ImeiInfo
            /\ heap' = [heap EXCEPT ![info[i]].EndIMEI = newEnds[i]]
            /\ UNCHANGED <<req, imeiData, info>>
        BY <1>t, <3>6 DEF AssignEnds, TypeOK, AskedInv, TaskOK
      <4>2. CASE copyOnRead
        <5>1. /\ imeiData' = imeiData
              /\ \A s \in DOMAIN imeiData : Row(s)' = Row(s)
          BY <3>6, <4>2, RowsKept
        <5>2. /\ heap'[info[i]].EndIMEI = newEnds[i]
              /\ heap'[info[i]].Color = heap[info[i]].Color
          BY <4>1 DEF ImeiInfo
        <5>3. /\ req[i].start \in DOMAIN imeiData
              /\ heap[info[i]] = Row(req[i].start)
              /\ req[i].end \notin Elements(Row(req[i].start).EndIMEI)
              /\ newEnds[i] = Extended(Row(req[i].start).EndIMEI, req[i].end)
          BY <2>2, <4>1 DEF TaskSeq
        <5> QED
          BY <2>4, <4>1, <5>1, <5>2, <5>3 DEF TaskSeq
      <4>3. CASE ~copyOnRead
        BY <2>2, <2>4, <4>1, <4>3 DEF TaskSeq
      <4> QED
        BY <4>2, <4>3
    <3> QED
      BY <2>1, <3>1, <3>2, <3>3, <3>4, <3>5, <3>6 DEF InsertImei
  <2> QED
    BY <2>3, <2>4
<1> QED
  BY <1>i, <1>n

\* A row that gets an end it did not have: the registry registers that end.
LEMMA RegisterEnd ==
    ASSUME TypeOK, NEW s \in DOMAIN imeiData, NEW e \in End,
           Row(s) \in ImeiInfo, Distinct(Row(s).EndIMEI),
           e \notin Elements(Row(s).EndIMEI),
           DOMAIN imeiData' = DOMAIN imeiData,
           \A x \in DOMAIN imeiData \ {s} : Row(x)' = Row(x),
           Row(s)'.Color = Row(s).Color,
           Row(s)'.EndIMEI = Extended(Row(s).EndIMEI, e)
    PROVE  Registry!Next
<1> DEFINE c == Row(s).Color
           entry == [Color |-> c,
                     Ends |-> (registered[s].Ends \cup {e}) \
                        (IF registered[s].Ends = {Blank} THEN {Blank} ELSE {})]
<1>1. s \in Start /\ c \in Color /\ Row(s).EndIMEI \in Seq(End)
  BY DEF TypeOK, ImeiInfo
<1>2. /\ registered[s] = [Color |-> c, Ends |-> Elements(Row(s).EndIMEI)]
      /\ DOMAIN registered = DOMAIN imeiData
  BY DEF registered
<1>3. registered[s].Color = c /\ registered[s].Ends = Elements(Row(s).EndIMEI)
  BY <1>2
<1>4. Elements(Row(s)'.EndIMEI) = entry.Ends
  BY <1>1, <1>3, ExtendedDistinct
<1>5. registered' = [x \in DOMAIN imeiData |->
                        IF x = s THEN entry ELSE registered[x]]
  BY <1>4 DEF registered
<1>6. registered' = Registry!Entered(s, entry)
  BY <1>2, <1>5 DEF Registry!Entered
<1>7. Registry!Register(s, e, c)
  BY <1>2, <1>3, <1>6 DEF Registry!Register
<1> QED
  BY <1>1, <1>7 DEF Registry!Next

LEMMA StepRegisters ==
    /\ AskedInv /\ NumbersInv /\ DistinctInv /\ SeqInv /\ [Next]_vars
    => [Registry!Next \/ disturbed']_registered
<1> SUFFICES ASSUME AskedInv, NumbersInv, DistinctInv, SeqInv, [Next]_vars,
                    ~disturbed'
             PROVE  Registry!Next \/ registered' = registered
  OBVIOUS
<1>t. TypeOK
  BY DEF AskedInv
<1>i. CASE UNCHANGED vars
  BY <1>i DEF vars, table, registered, Row
<1>n. CASE Next
  <2>1. PICK i \in Inserter :
          \/ \E r \in Request : Submit(i, r)
          \/ SubmitInvalid(i)
          \/ InsertImei(i)
    BY <1>n DEF Next
  <2>2. ~disturbed /\ TaskSeq(i)
    BY <1>n DEF Next, SeqInv
  <2>3. \A s \in DOMAIN imeiData :
           Row(s) \in ImeiInfo /\ Distinct(Row(s).EndIMEI)
    BY <1>t, <2>2 DEF DistinctInv, TypeOK, Row
  <2>4. CASE \/ \E r \in Request : Submit(i, r)
             \/ SubmitInvalid(i) \/ LookupHit(i) \/ LookupMiss(i)
             \/ CheckColor(i) \/ CheckEnds(i) \/ CheckPasses(i)
             \/ ExtendEnds(i) \/ SaveFails(i)
             \/ AssignEnds(i) /\ copyOnRead
    <3>1. /\ imeiData' = imeiData
          /\ \A s \in DOMAIN imeiData : Row(s)' = Row(s)
      BY <2>4, RowsKept
    <3> QED
      BY <3>1 DEF registered
  <2>5. CASE AssignEnds(i) /\ ~copyOnRead
    <3>0. PICK s, e : s = req[i].start /\ e = req[i].end
      OBVIOUS
    <3>1. /\ pc[i] = "assign" /\ req[i] \in Request
          /\ info[i] \in DOMAIN heap /\ heap[info[i]] \in ImeiInfo
          /\ heap' = [heap EXCEPT ![info[i]].EndIMEI = newEnds[i]]
          /\ imeiData' = imeiData
      BY <1>t, <2>5 DEF AssignEnds, TypeOK, AskedInv, TaskOK
    <3>2. /\ s \in DOMAIN imeiData /\ info[i] = imeiData[s]
          /\ e \notin Elements(Row(s).EndIMEI)
          /\ newEnds[i] = Extended(Row(s).EndIMEI, e)
      BY <2>2, <2>5, <3>0, <3>1 DEF TaskSeq
    <3>3. \A x \in DOMAIN imeiData \ {s} : imeiData[x] # info[i]
      BY <3>2 DEF AskedInv, Row
    <3>4. \A x \in DOMAIN imeiData \ {s} : Row(x)' = Row(x)
      BY <1>t, <3>1, <3>3 DEF Row, TypeOK
    <3>5. /\ Row(s)'.Color = Row(s).Color
          /\ Row(s)'.EndIMEI = Extended(Row(s).EndIMEI, e)
      BY <3>1, <3>2 DEF Row, ImeiInfo
    <3>6. e \in End
      BY <3>0, <3>1 DEF Request
    <3> QED
      BY <1>t, <2>3, <3>1, <3>2, <3>4, <3>5, <3>6, RegisterEnd
  <2>6. CASE Save(i)
    <3>0. PICK s, e, c : /\ s = req[i].start /\ e = req[i].end
                        /\ c = req[i].Color
      OBVIOUS
    <3>1. /\ pc[i] = "save" /\ req[i] \in Request
          /\ info[i] \in DOMAIN heap /\ heap[info[i]] \in ImeiInfo
          /\ heap[info[i]].Color = c
          /\ heap' = heap
          /\ imeiData' = [x \in DOMAIN imeiData \cup {s} |->
                             IF x = s THEN info[i] ELSE imeiData[x]]
      BY <1>t, <2>6, <3>0 DEF Save, TypeOK, AskedInv, TaskOK
    <3>2. s \in Start /\ e \in End /\ c \in Color
      BY <3>0, <3>1 DEF Request
    <3>3. Row(s)' = heap[info[i]]
          /\ \A x \in DOMAIN imeiData \ {s} : Row(x)' = Row(x)
      BY <3>1 DEF Row
    <3>4. CASE s \in DOMAIN imeiData /\ info[i] = imeiData[s]
      <4>1. imeiData' = imeiData
        BY <1>t, <3>1, <3>4 DEF TypeOK
      <4> QED
        BY <3>1, <4>1 DEF registered, Row
    <3>5. CASE /\ s \in DOMAIN imeiData
               /\ e \notin Elements(Row(s).EndIMEI)
               /\ heap[info[i]].Color = Row(s).Color
               /\ heap[info[i]].EndIMEI = Extended(Row(s).EndIMEI, e)
      <4>1. DOMAIN imeiData' = DOMAIN imeiData
        BY <3>1, <3>5
      <4> QED
        BY <1>t, <2>3, <3>2, <3>3, <3>5, <4>1, RegisterEnd
    <3>6. CASE /\ s \notin DOMAIN imeiData
               /\ heap[info[i]].EndIMEI = <<e>>
      <4> DEFINE entry == [Color |-> c, Ends |-> {e}]
      <4>1. Elements(heap[info[i]].EndIMEI) = {e}
        BY <3>2, <3>6, SingletonFacts
      <4>2. DOMAIN registered = DOMAIN imeiData
        BY DEF registered
      <4>3. registered' = [x \in DOMAIN imeiData \cup {s} |->
                              IF x = s THEN entry ELSE registered[x]]
        BY <3>1, <3>3, <4>1 DEF registered
      <4>4. registered' = Registry!Entered(s, entry)
        BY <4>2, <4>3 DEF Registry!Entered
      <4>5. Registry!Register(s, e, c)
        BY <3>6, <4>2, <4>4 DEF Registry!Register
      <4> QED
        BY <3>2, <4>5 DEF Registry!Next
    <3> QED
      BY <2>2, <3>0, <3>1, <3>4, <3>5, <3>6 DEF TaskSeq
  <2> QED
    BY <2>1, <2>4, <2>5, <2>6 DEF InsertImei
<1> QED
  BY <1>i, <1>n

-----------------------------------------------------------------------------
(* Theorems about the registry *)

LEMMA InitRegistry == Init => /\ NumbersInv /\ DistinctInv /\ SeqInv
                              /\ Registry!Init
<1> SUFFICES ASSUME Init PROVE /\ NumbersInv /\ DistinctInv /\ SeqInv
                               /\ Registry!Init
  OBVIOUS
<1>1. \A i \in Inserter : pc[i] = "idle"
  BY DEF Init
<1>2. DOMAIN heap = {} /\ DOMAIN imeiData = {}
  BY DEF Init
<1>3. NumbersInv /\ DistinctInv /\ SeqInv
  BY <1>1, <1>2 DEF NumbersInv, Past, DistinctInv, Overlap, SeqInv, TaskSeq
<1>4. Registry!Init
  BY <1>2 DEF Registry!Init, registered
<1> QED
  BY <1>3, <1>4

\* No IMEI is on record twice, however inserts over a database interleave and
\* whichever calls fail, and in memory unless two inserts overlap.
THEOREM NeverTwice == Spec => []NoDuplicates
<1>1. AskedInv /\ DistinctInv => NoDuplicates
  BY DEF AskedInv, TypeOK, DistinctInv, NoDuplicates, Distinct, Row
<1> QED
  BY <1>1, InitAsked, NextAsked, InitRegistry, NextNumbers, NextDistinct, PTL
     DEF Spec

\* As long as inserts do not overlap and no read fails, the table implements
\* the registry, over either repository.
THEOREM RefinesRegistry == Spec => ImplementsRegistry
BY InitAsked, NextAsked, InitRegistry, NextNumbers, NextDistinct, NextSeq,
   StepRegisters, PTL DEF Spec, ImplementsRegistry

=============================================================================
