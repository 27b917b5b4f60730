--------------------------- MODULE TacTableProofs ---------------------------
(***************************************************************************)
(* Proofs about TacTable, for every set of bounds, inserters and colours,  *)
(* every number of requests and every pattern of failed calls.             *)
(***************************************************************************)
EXTENDS TacTable, TLAPS

-----------------------------------------------------------------------------
(* The order of keys *)

LEMMA KeyFacts ==
    ASSUME NEW k \in Key
    PROVE  /\ k = <<k[1], k[2]>>
           /\ k[1] \in Nat
           /\ k[2] \in Nat
           /\ k[1] <= k[2]
<1>1. k \in Pos \X Pos /\ k[1] <= k[2]
  BY DEF Key
<1>2. k[1] \in Nat /\ k[2] \in Nat
  BY <1>1, PosAssumption
<1> QED
  BY <1>1, <1>2

\* The order is strict, so a record met below or above a key is another one.
LEMMA LessStrict ==
    ASSUME NEW a \in Key, NEW b \in Key, Less(a, b)
    PROVE  a # b
BY KeyFacts DEF Less

LEMMA LessTransitive ==
    ASSUME NEW a \in Key, NEW b \in Key, NEW c \in Key,
           Less(a, b), Less(b, c)
    PROVE  Less(a, c)
BY KeyFacts DEF Less

-----------------------------------------------------------------------------
(* Typing *)

LEMMA SavedType ==
    ASSUME TypeOK, NEW rec \in TacInfo
    PROVE  /\ DOMAIN Saved(rec) = DOMAIN tacData \cup {rec.KeyTac}
           /\ DOMAIN Saved(rec) \subseteq Key
           /\ Saved(rec) \in [DOMAIN Saved(rec) -> TacInfo]
BY DEF TypeOK, Saved, TacInfo

LEMMA RelinkedType ==
    ASSUME TypeOK, NEW k \in DOMAIN tacData, NEW key \in Key
    PROVE  /\ Relinked(k, key) \in TacInfo
           /\ Relinked(k, key).KeyTac = tacData[k].KeyTac
           /\ Relinked(k, key).Color = tacData[k].Color
           /\ Relinked(k, key).PrevLink = key
<1>1. tacData[k] \in TacInfo
  BY DEF TypeOK
<1> QED
  BY <1>1 DEF Relinked, TacInfo

\* An inserter that is not idle has a request.
ReqOK == \A i \in Inserter : pc[i] # "idle" => req[i] \in Request

LEMMA InitType == Init => TypeOK /\ ReqOK
<1> SUFFICES ASSUME Init
             PROVE  TypeOK /\ ReqOK
  OBVIOUS
<1>0. disturbed \in BOOLEAN
  BY DEF Init
<1>1. submitted \in 0..MaxRequests /\ faults \in 0..MaxFaults
  BY BoundAssumption DEF Init
<1>2. DOMAIN tacData = {} /\ tacData \in [DOMAIN tacData -> TacInfo]
  BY DEF Init
<1>3. /\ pc \in [Inserter -> Call]
      /\ req \in [Inserter -> Request \cup {Nil}]
      /\ cursor \in [Inserter -> Key \cup {Nil}]
      /\ bestParent \in [Inserter -> Key \cup {Nil}]
      /\ listUpdate \in [Inserter -> Seq(TacInfo)]
      /\ reply \in [Inserter -> Reply]
      /\ ReqOK
  BY DEF Init, ReqOK, Call, Reply
<1> QED
  BY <1>0, <1>1, <1>2, <1>3 DEF TypeOK

LEMMA AnswerType ==
    ASSUME TypeOK, ReqOK, NEW i \in Inserter, NEW r \in Reply, Answer(i, r)
    PROVE  /\ pc' \in [Inserter -> Call]
           /\ req' \in [Inserter -> Request \cup {Nil}]
           /\ cursor' \in [Inserter -> Key \cup {Nil}]
           /\ bestParent' \in [Inserter -> Key \cup {Nil}]
           /\ listUpdate' \in [Inserter -> Seq(TacInfo)]
           /\ reply' \in [Inserter -> Reply]
           /\ ReqOK'
BY DEF TypeOK, ReqOK, Answer, Call

LEMMA FailType ==
    ASSUME TypeOK, NEW kind, Fail(kind) \/ UNCHANGED faults
    PROVE  faults' \in 0..MaxFaults
BY BoundAssumption DEF TypeOK, Fail

LEMMA NextType == TypeOK /\ ReqOK /\ [Next]_vars => TypeOK' /\ ReqOK'
<1> SUFFICES ASSUME TypeOK, ReqOK, [Next]_vars
             PROVE  TypeOK' /\ ReqOK'
  OBVIOUS
<1>u. disturbed' \in BOOLEAN
  BY DEF Next, Watched, vars, TypeOK
<1> USE <1>u
<1>1. ASSUME NEW i \in Inserter, NEW r \in Request, Submit(i, r)
      PROVE  TypeOK' /\ ReqOK'
  <2>1. r.key \in Key
    BY DEF Request
  <2>2. submitted' \in 0..MaxRequests
    BY <1>1, BoundAssumption DEF Submit, TypeOK
  <2> QED
    BY <1>1, <2>1, <2>2 DEF Submit, Goto, TypeOK, ReqOK, Call, Reply
<1>2. ASSUME NEW i \in Inserter, SubmitInverted(i)
      PROVE  TypeOK' /\ ReqOK'
  <2>1. submitted' \in 0..MaxRequests
    BY <1>2, BoundAssumption DEF SubmitInverted, TypeOK
  <2> QED
    BY <1>2, <2>1, AnswerType DEF SubmitInverted, TypeOK, Reply
<1>3. ASSUME NEW i \in Inserter,
             LookupHit(i) \/ PrevCross(i) \/ NextCross(i) \/ Done(i)
      PROVE  TypeOK' /\ ReqOK'
  <2>1. PICK r \in Reply : Answer(i, r)
    BY <1>3 DEF LookupHit, PrevCross, NextCross, Done, Reply
  <2>2. UNCHANGED <<tacData, submitted, faults>>
    BY <1>3 DEF LookupHit, PrevCross, NextCross, Done
  <2> QED
    BY <2>1, <2>2, AnswerType DEF TypeOK
<1>4. ASSUME NEW i \in Inserter, SaveNewFails(i)
      PROVE  TypeOK' /\ ReqOK'
  BY <1>4, AnswerType, FailType DEF SaveNewFails, TypeOK, Reply
<1>5. ASSUME NEW i \in Inserter,
             LookupMiss(i) \/ PrevEnd(i) \/ PrevDisjoint(i) \/ NextEnd(i)
      PROVE  TypeOK' /\ ReqOK'
  <2>1. req[i] \in Request /\ req[i].key \in Key
    BY <1>5 DEF LookupMiss, PrevEnd, PrevDisjoint, NextEnd, ReqOK, Request
  <2>2. PICK call \in Call \ {"idle"}, key \in Key : Goto(i, call, key)
    BY <1>5, <2>1
       DEF LookupMiss, PrevEnd, PrevDisjoint, NextEnd, Call, TypeOK, TacInfo
  <2>3. faults' \in 0..MaxFaults
    BY <1>5, FailType DEF LookupMiss, PrevEnd, PrevDisjoint, NextEnd
  <2>4. UNCHANGED <<tacData, req, bestParent, listUpdate, reply, submitted>>
    BY <1>5 DEF LookupMiss, PrevEnd, PrevDisjoint, NextEnd
  <2> QED
    BY <2>1, <2>2, <2>3, <2>4 DEF Goto, TypeOK, ReqOK
<1>6. ASSUME NEW i \in Inserter,
             PrevParent(i) \/ NextParent(i) \/ LookupParent(i)
      PROVE  TypeOK' /\ ReqOK'
  <2>1. req[i] \in Request /\ req[i].key \in Key
    BY <1>6 DEF PrevParent, NextParent, LookupParent, ReqOK, Request
  <2>2. PICK call \in Call \ {"idle"}, key \in Key : Goto(i, call, key)
    BY <1>6, <2>1 DEF PrevParent, NextParent, LookupParent, Call, TypeOK
  <2>3. bestParent' \in [Inserter -> Key \cup {Nil}]
    BY <1>6 DEF PrevParent, NextParent, LookupParent, Tighter, TypeOK
  <2>4. faults' \in 0..MaxFaults
    BY <1>6, FailType DEF PrevParent, NextParent, LookupParent
  <2>5. UNCHANGED <<tacData, req, listUpdate, reply, submitted>>
    BY <1>6 DEF PrevParent, NextParent, LookupParent
  <2> QED
    BY <2>1, <2>2, <2>3, <2>4, <2>5 DEF Goto, TypeOK, ReqOK
<1>7. ASSUME NEW i \in Inserter, PrevChild(i) \/ NextChild(i)
      PROVE  TypeOK' /\ ReqOK'
  <2>1. req[i] \in Request /\ req[i].key \in Key
    BY <1>7 DEF PrevChild, NextChild, ReqOK, Request
  <2>2. PICK call \in Call \ {"idle"}, p \in DOMAIN tacData :
            /\ Goto(i, call, p)
            /\ listUpdate' = [listUpdate EXCEPT
                                 ![i] = Append(@, Relinked(p, req[i].key))]
    BY <1>7 DEF PrevChild, NextChild, Call
  <2>3. listUpdate' \in [Inserter -> Seq(TacInfo)]
    BY <2>1, <2>2, RelinkedType DEF TypeOK
  <2>4. UNCHANGED <<tacData, req, bestParent, reply, submitted, faults>>
    BY <1>7 DEF PrevChild, NextChild
  <2> QED
    BY <2>1, <2>2, <2>3, <2>4 DEF Goto, TypeOK, ReqOK
<1>8. ASSUME NEW i \in Inserter, SaveNew(i)
      PROVE  TypeOK' /\ ReqOK'
  <2> DEFINE rec == [KeyTac |-> req[i].key, Color |-> req[i].Color,
                     PrevLink |-> bestParent[i]]
  <2>1. rec \in TacInfo
    BY <1>8 DEF SaveNew, ReqOK, TypeOK, Request, TacInfo
  <2>2. tacData' = Saved(rec)
    BY <1>8 DEF SaveNew
  <2>3. DOMAIN tacData' \subseteq Key /\ tacData' \in [DOMAIN tacData' -> TacInfo]
    BY <2>1, <2>2, SavedType
  <2> QED
    BY <1>8, <2>3 DEF SaveNew, Goto, TypeOK, ReqOK, Call
<1>9. ASSUME NEW i \in Inserter, SaveChild(i)
      PROVE  TypeOK' /\ ReqOK'
  <2>1. listUpdate[i] \in Seq(TacInfo) /\ listUpdate[i] # <<>>
    BY <1>9 DEF SaveChild, TypeOK
  <2>2. Head(listUpdate[i]) \in TacInfo /\ Tail(listUpdate[i]) \in Seq(TacInfo)
    BY <2>1
  <2>3. DOMAIN tacData' \subseteq Key /\ tacData' \in [DOMAIN tacData' -> TacInfo]
    BY <1>9, <2>2, SavedType DEF SaveChild, TypeOK
  <2>4. faults' \in 0..MaxFaults
    BY <1>9, FailType DEF SaveChild
  <2> QED
    BY <1>9, <2>2, <2>3, <2>4 DEF SaveChild, TypeOK, ReqOK
<1>10. CASE UNCHANGED vars
  BY <1>10 DEF vars, TypeOK, ReqOK
<1> QED
  BY <1>1, <1>2, <1>3, <1>4, <1>5, <1>6, <1>7, <1>8, <1>9, <1>10
     DEF Next, InsertTac

\* Every variable keeps its type: the typing invariant of all that follows.
THEOREM TypeCorrect == Spec => []TypeOK
<1>1. TypeOK /\ ReqOK /\ [Next]_vars => (TypeOK /\ ReqOK)'
  BY NextType
<1> QED
  BY InitType, <1>1, PTL DEF Spec

-----------------------------------------------------------------------------
(* Links *)

\* Only i's local variables change, and the table keeps its keys.
LocalStep(i) ==
    /\ DOMAIN tacData \subseteq DOMAIN tacData'
    /\ \A j \in Inserter \ {i} :
          /\ pc'[j] = pc[j]
          /\ req'[j] = req[j]
          /\ cursor'[j] = cursor[j]
          /\ bestParent'[j] = bestParent[j]
          /\ listUpdate'[j] = listUpdate[j]

LEMMA OthersKeep ==
    ASSUME LinkInv, NEW i \in Inserter, NEW j \in Inserter \ {i}, LocalStep(i)
    PROVE  TaskOK(j)'
BY DEF LinkInv, TaskOK, LocalStep

\* An answer leaves the inserter idle with its locals reset.
LEMMA AnswerTask ==
    ASSUME TypeOK, NEW i \in Inserter, NEW r, Answer(i, r)
    PROVE  TaskOK(i)'
BY DEF TypeOK, Answer, TaskOK

LEMMA AnswerLocal ==
    ASSUME TypeOK, NEW i \in Inserter, NEW r, Answer(i, r), UNCHANGED tacData
    PROVE  LocalStep(i)
BY DEF TypeOK, Answer, LocalStep

LEMMA GotoLocal ==
    ASSUME TypeOK, NEW i \in Inserter, NEW call, NEW key, Goto(i, call, key)
    PROVE  /\ pc'[i] = call
           /\ cursor'[i] = key
           /\ \A j \in Inserter \ {i} : pc'[j] = pc[j] /\ cursor'[j] = cursor[j]
BY DEF TypeOK, Goto

\* The record a walk meets is stored, and lies on the walk's side of the key.
LEMMA PrevMet ==
    ASSUME LinkInv, NEW i \in Inserter, pc[i] = "prev",
           NEW p \in DOMAIN tacData, IsPrev(p, cursor[i])
    PROVE  p \in Key /\ Less(p, req[i].key) /\ p # req[i].key
<1>1. p \in Key /\ cursor[i] \in Key /\ req[i].key \in Key
  BY DEF LinkInv, TypeOK, TaskOK, Request
<1>2. Less(p, cursor[i])
  BY DEF IsPrev, Below
<1>3. cursor[i] = req[i].key \/ Less(cursor[i], req[i].key)
  BY DEF LinkInv, TaskOK
<1>4. Less(p, req[i].key)
  BY <1>1, <1>2, <1>3, LessTransitive
<1> QED
  BY <1>1, <1>4, LessStrict

LEMMA NextMet ==
    ASSUME LinkInv, NEW i \in Inserter, pc[i] = "next",
           NEW n \in DOMAIN tacData, IsNext(n, cursor[i])
    PROVE  n \in Key /\ Less(req[i].key, n) /\ n # req[i].key
<1>1. n \in Key /\ cursor[i] \in Key /\ req[i].key \in Key
  BY DEF LinkInv, TypeOK, TaskOK, Request
<1>2. Less(cursor[i], n)
  BY DEF IsNext, Above
<1>3. cursor[i] = req[i].key \/ Less(req[i].key, cursor[i])
  BY DEF LinkInv, TaskOK
<1>4. Less(req[i].key, n)
  BY <1>1, <1>2, <1>3, LessTransitive
<1> QED
  BY <1>1, <1>4, LessStrict

\* The copy of an enclosed record is one that may be saved later.
LEMMA ChildMet ==
    ASSUME LinkInv, NEW i \in Inserter, req[i] \in Request,
           NEW p \in DOMAIN tacData, p # req[i].key, Encloses(req[i].key, p),
           listUpdate' = [listUpdate EXCEPT
                             ![i] = Append(@, Relinked(p, req[i].key))],
           UNCHANGED <<tacData, req>>
    PROVE  \A n \in 1..Len(listUpdate'[i]) :
              LET rec == listUpdate'[i][n] IN
              /\ rec.KeyTac \in DOMAIN tacData'
              /\ rec.KeyTac # req'[i].key
              /\ rec.PrevLink = req'[i].key
              /\ Encloses(req'[i].key, rec.KeyTac)
<1> DEFINE child == Relinked(p, req[i].key)
<1>1. child \in TacInfo
  BY RelinkedType DEF LinkInv, Request
<1>2. child.KeyTac = p /\ child.PrevLink = req[i].key
  BY RelinkedType DEF LinkInv, Request
<1>3. listUpdate[i] \in Seq(TacInfo) /\ listUpdate'[i] = Append(listUpdate[i], child)
  BY DEF LinkInv, TypeOK
<1> HIDE DEF child
<1>4. /\ Len(listUpdate'[i]) = Len(listUpdate[i]) + 1
      /\ Len(listUpdate[i]) \in Nat
      /\ listUpdate'[i][Len(listUpdate[i]) + 1] = child
      /\ \A n \in 1..Len(listUpdate[i]) : listUpdate'[i][n] = listUpdate[i][n]
  BY <1>1, <1>3
<1>5. \A n \in 1..Len(listUpdate'[i]) :
         n \in 1..Len(listUpdate[i]) \/ n = Len(listUpdate[i]) + 1
  BY <1>4
<1> QED
  BY <1>2, <1>4, <1>5 DEF LinkInv, TaskOK

\* A step that leaves the table alone.
LEMMA ReadStep ==
    ASSUME LinkInv, NEW i \in Inserter, TypeOK', UNCHANGED tacData,
           LocalStep(i), TaskOK(i)'
    PROVE  LinkInv'
<1>1. \A j \in Inserter : TaskOK(j)'
  BY OthersKeep
<1> QED
  BY <1>1 DEF LinkInv, LinkEncloses

\* A save of a record whose link names a stored, strictly enclosing range.
LEMMA WriteStep ==
    ASSUME LinkInv, NEW i \in Inserter, TypeOK', NEW rec \in TacInfo,
           tacData' = Saved(rec), LocalStep(i), TaskOK(i)',
           rec.PrevLink # Nil =>
               /\ rec.PrevLink \in DOMAIN tacData
               /\ rec.PrevLink # rec.KeyTac
               /\ Encloses(rec.PrevLink, rec.KeyTac)
    PROVE  LinkInv'
<1>1. \A j \in Inserter : TaskOK(j)'
  BY OthersKeep
<1>2. /\ DOMAIN tacData' = DOMAIN tacData \cup {rec.KeyTac}
      /\ tacData'[rec.KeyTac] = rec
      /\ \A k \in DOMAIN tacData \ {rec.KeyTac} : tacData'[k] = tacData[k]
  BY DEF Saved
<1>3. \A k \in DOMAIN tacData' : tacData'[k].KeyTac = k
  BY <1>2 DEF LinkInv
<1>4. LinkEncloses'
  BY <1>2 DEF LinkInv, LinkEncloses
<1> QED
  BY <1>1, <1>3, <1>4 DEF LinkInv

LEMMA NextLink == LinkInv /\ [Next]_vars => LinkInv'
<1> SUFFICES ASSUME LinkInv, [Next]_vars
             PROVE  LinkInv'
  OBVIOUS
<1>a. TypeOK /\ ReqOK
  BY DEF LinkInv, ReqOK, TaskOK
<1>b. TypeOK'
  BY <1>a, NextType
<1>1. ASSUME NEW i \in Inserter, NEW r \in Request, Submit(i, r)
      PROVE  LinkInv'
  <2>1. LocalStep(i) /\ UNCHANGED tacData
    BY <1>a, <1>1 DEF Submit, Goto, LocalStep, TypeOK
  <2>2. TaskOK(i)'
    BY <1>a, <1>1 DEF Submit, Goto, TypeOK, LinkInv, TaskOK
  <2> QED
    BY <1>b, <2>1, <2>2, ReadStep
<1>2. ASSUME NEW i \in Inserter,
             \/ SubmitInverted(i) \/ LookupHit(i) \/ PrevCross(i)
             \/ NextCross(i) \/ SaveNewFails(i) \/ Done(i)
      PROVE  LinkInv'
  <2>1. UNCHANGED tacData /\ \E r \in Reply : Answer(i, r)
    BY <1>2 DEF SubmitInverted, LookupHit, PrevCross, NextCross,
                SaveNewFails, Done, Reply
  <2>2. LocalStep(i) /\ TaskOK(i)'
    BY <1>a, <2>1, AnswerTask, AnswerLocal
  <2> QED
    BY <1>b, <2>1, <2>2, ReadStep
<1>3. ASSUME NEW i \in Inserter,
             LookupMiss(i) \/ PrevEnd(i) \/ PrevDisjoint(i) \/ NextEnd(i)
      PROVE  LinkInv'
  <2>1. /\ UNCHANGED <<tacData, req, bestParent, listUpdate>>
        /\ pc[i] # "idle"
        /\ pc[i] # "children"
    BY <1>3 DEF LookupMiss, PrevEnd, PrevDisjoint, NextEnd
  <2>2. req[i] \in Request /\ req[i].key \in Key
    BY <1>a, <2>1 DEF ReqOK, Request
  <2>3. \/ \E call \in {"prev", "next", "save"} : Goto(i, call, req[i].key)
        \/ \E p \in Key : /\ Goto(i, "lookupParent", p)
                          /\ StartOf(p) < StartOf(req[i].key)
    <3>1. CASE PrevDisjoint(i)
      <4>1. PICK p \in DOMAIN tacData :
               /\ EndOf(p) < StartOf(req[i].key)
               /\ IF tacData[p].PrevLink = Nil
                  THEN Goto(i, "next", req[i].key)
                  ELSE Goto(i, "lookupParent", tacData[p].PrevLink)
        BY <3>1 DEF PrevDisjoint
      <4>2. CASE tacData[p].PrevLink # Nil
        <5> DEFINE q == tacData[p].PrevLink
        <5>1. q \in Key /\ p \in Key /\ Encloses(q, p)
          BY <4>2, <1>a DEF LinkInv, LinkEncloses, TypeOK
        <5>2. StartOf(q) < StartOf(req[i].key)
          BY <4>1, <5>1, <2>2, KeyFacts DEF Encloses, StartOf, EndOf
        <5> QED
          BY <4>1, <4>2, <5>1, <5>2
      <4> QED
        BY <4>1, <4>2
    <3> QED
      BY <1>3, <3>1 DEF LookupMiss, PrevEnd, NextEnd
  <2>4. LocalStep(i)
    BY <1>a, <2>1, <2>3, GotoLocal DEF LocalStep
  <2>5. TaskOK(i)'
    BY <1>a, <2>1, <2>2, <2>3, GotoLocal DEF LinkInv, TaskOK
  <2> QED
    BY <1>b, <2>1, <2>4, <2>5, ReadStep
<1>4. ASSUME NEW i \in Inserter,
             PrevParent(i) \/ NextParent(i) \/ LookupParent(i)
      PROVE  LinkInv'
  <2>1. /\ UNCHANGED <<tacData, req, listUpdate>>
        /\ pc[i] \in {"prev", "next", "lookupParent"}
    BY <1>4 DEF PrevParent, NextParent, LookupParent
  <2>2. req[i] \in Request /\ req[i].key \in Key
    BY <1>a, <2>1 DEF ReqOK, Request
  <2>3. \/ bestParent' = bestParent
        \/ \E p \in DOMAIN tacData :
              /\ p # req[i].key
              /\ Encloses(p, req[i].key)
              /\ bestParent' = [bestParent EXCEPT ![i] = Tighter(p, @)]
    <3>1. CASE PrevParent(i)
      BY <3>1, PrevMet DEF PrevParent
    <3>2. CASE NextParent(i)
      BY <3>2, NextMet DEF NextParent
    <3>3. CASE LookupParent(i)
      <4>1. cursor[i] # req[i].key
        <5>1. cursor[i] \in Key /\ StartOf(cursor[i]) < StartOf(req[i].key)
          BY <3>3 DEF LookupParent, LinkInv, TaskOK
        <5> QED
          BY <5>1, <2>2, KeyFacts DEF StartOf
      <4> QED
        BY <3>3, <4>1 DEF LookupParent
    <3> QED
      BY <1>4, <3>1, <3>2, <3>3
  <2>4. /\ \A j \in Inserter \ {i} : bestParent'[j] = bestParent[j]
        /\ bestParent'[i] # Nil =>
              /\ bestParent'[i] \in DOMAIN tacData
              /\ bestParent'[i] # req[i].key
              /\ Encloses(bestParent'[i], req[i].key)
    BY <1>a, <2>3 DEF LinkInv, TaskOK, Tighter, TypeOK
  <2>5. \/ Goto(i, "next", req[i].key)
        \/ \E p \in Key : /\ Goto(i, "prev", p)
                          /\ Less(p, req[i].key)
        \/ \E p \in Key : /\ Goto(i, "next", p)
                          /\ Less(req[i].key, p)
    BY <1>4, PrevMet, NextMet DEF PrevParent, NextParent, LookupParent
  <2>6. LocalStep(i)
    BY <1>a, <2>1, <2>4, <2>5, GotoLocal DEF LocalStep
  <2>7. TaskOK(i)'
    BY <1>a, <2>1, <2>2, <2>4, <2>5, GotoLocal DEF LinkInv, TaskOK
  <2> QED
    BY <1>b, <2>1, <2>6, <2>7, ReadStep
<1>5. ASSUME NEW i \in Inserter, PrevChild(i) \/ NextChild(i)
      PROVE  LinkInv'
  <2>1. /\ UNCHANGED <<tacData, req, bestParent>>
        /\ pc[i] \in {"prev", "next"}
    BY <1>5 DEF PrevChild, NextChild
  <2>2. req[i] \in Request /\ req[i].key \in Key
    BY <1>a, <2>1 DEF ReqOK, Request
  <2>3. PICK p \in DOMAIN tacData :
           /\ p \in Key /\ p # req[i].key /\ Encloses(req[i].key, p)
           /\ \/ Goto(i, "prev", p) /\ Less(p, req[i].key)
              \/ Goto(i, "next", p) /\ Less(req[i].key, p)
           /\ listUpdate' = [listUpdate EXCEPT
                                ![i] = Append(@, Relinked(p, req[i].key))]
    BY <1>5, PrevMet, NextMet DEF PrevChild, NextChild
  <2>4. LocalStep(i)
    BY <1>a, <2>1, <2>3, GotoLocal DEF LocalStep, TypeOK
  <2>5. \A n \in 1..Len(listUpdate'[i]) :
           LET rec == listUpdate'[i][n] IN
           /\ rec.KeyTac \in DOMAIN tacData'
           /\ rec.KeyTac # req'[i].key
           /\ rec.PrevLink = req'[i].key
           /\ Encloses(req'[i].key, rec.KeyTac)
    BY <2>1, <2>2, <2>3, ChildMet
  <2>6. TaskOK(i)'
    BY <1>a, <2>1, <2>2, <2>3, <2>5, GotoLocal DEF LinkInv, TaskOK
  <2> QED
    BY <1>b, <2>1, <2>4, <2>6, ReadStep
<1>6. ASSUME NEW i \in Inserter, SaveNew(i)
      PROVE  LinkInv'
  <2> DEFINE rec == [KeyTac |-> req[i].key, Color |-> req[i].Color,
                     PrevLink |-> bestParent[i]]
  <2>1. rec \in TacInfo /\ tacData' = Saved(rec)
    BY <1>a, <1>6 DEF SaveNew, ReqOK, TypeOK, Request, TacInfo
  <2>2. DOMAIN tacData' = DOMAIN tacData \cup {req[i].key}
    BY <2>1 DEF Saved
  <2>3. LocalStep(i)
    BY <1>a, <1>6, <2>2 DEF SaveNew, Goto, LocalStep, TypeOK
  <2>4. TaskOK(i)'
    BY <1>a, <1>6, <2>2 DEF SaveNew, Goto, TypeOK, LinkInv, TaskOK
  <2>5. bestParent[i] # Nil =>
           /\ bestParent[i] \in DOMAIN tacData
           /\ bestParent[i] # req[i].key
           /\ Encloses(bestParent[i], req[i].key)
    BY DEF LinkInv, TaskOK
  <2> QED
    BY <1>b, <2>1, <2>3, <2>4, <2>5, WriteStep
<1>7. ASSUME NEW i \in Inserter, SaveChild(i)
      PROVE  LinkInv'
  <2> DEFINE rec == Head(listUpdate[i])
  <2>1. listUpdate[i] \in Seq(TacInfo) /\ listUpdate[i] # <<>>
    BY <1>a, <1>7 DEF SaveChild, TypeOK
  <2>2. /\ rec \in TacInfo
        /\ rec = listUpdate[i][1]
        /\ 1 \in 1..Len(listUpdate[i])
    BY <2>1
  <2>3. /\ Len(Tail(listUpdate[i])) \in Nat
        /\ \A n \in 1..Len(Tail(listUpdate[i])) :
              /\ n + 1 \in 1..Len(listUpdate[i])
              /\ Tail(listUpdate[i])[n] = listUpdate[i][n + 1]
    BY <2>1
  <2>4. /\ listUpdate'[i] = Tail(listUpdate[i])
        /\ UNCHANGED <<pc, req, cursor, bestParent>>
        /\ pc[i] = "children"
        /\ \A j \in Inserter \ {i} : listUpdate'[j] = listUpdate[j]
    BY <1>a, <1>7 DEF SaveChild, TypeOK
  <2>5. DOMAIN tacData \subseteq DOMAIN tacData'
    BY <1>7 DEF SaveChild, Saved
  <2>6. LocalStep(i)
    BY <2>4, <2>5 DEF LocalStep
  <2>7. TaskOK(i)'
    BY <2>3, <2>4, <2>5 DEF LinkInv, TaskOK
  <2>8. CASE tacData' = Saved(rec)
    <3>1. /\ req[i].key \in DOMAIN tacData
          /\ rec.PrevLink = req[i].key
          /\ rec.KeyTac # req[i].key
          /\ Encloses(req[i].key, rec.KeyTac)
      BY <2>2, <2>4 DEF LinkInv, TaskOK
    <3> QED
      BY <1>b, <2>2, <2>6, <2>7, <2>8, <3>1, WriteStep
  <2>9. CASE UNCHANGED tacData
    BY <1>b, <2>6, <2>7, <2>9, ReadStep
  <2> QED
    BY <1>7, <2>8, <2>9 DEF SaveChild
<1>8. CASE UNCHANGED vars
  BY <1>8 DEF vars, LinkInv, TypeOK, LinkEncloses, TaskOK
<1> QED
  BY <1>1, <1>2, <1>3, <1>4, <1>5, <1>6, <1>7, <1>8 DEF Next, InsertTac

\* However inserts interleave and whichever repository calls fail, every link
\* names a stored range that strictly encloses its own: link chains are finite
\* and never dangle, though no step writes a parent and its children together.
THEOREM LinksEnclose == Spec => []LinkEncloses
<1>1. Init => LinkInv
  <2>1. Init => TypeOK
    BY InitType
  <2> QED
    BY <2>1 DEF Init, LinkInv, LinkEncloses, TaskOK
<1>2. LinkInv /\ [Next]_vars => LinkInv'
  BY NextLink
<1>3. LinkInv => LinkEncloses
  BY DEF LinkInv
<1> QED
  BY <1>1, <1>2, <1>3, PTL DEF Spec

-----------------------------------------------------------------------------
(* Refusals *)

\* An inserter in progress has not answered yet.
Unanswered == \A i \in Inserter : pc[i] # "idle" => reply[i] = "none"

LEMMA NextUnanswered ==
    LinkInv /\ Unanswered /\ [Next]_vars => Unanswered'
<1> SUFFICES ASSUME LinkInv, Unanswered, [Next]_vars
             PROVE  Unanswered'
  OBVIOUS
<1>1. TypeOK
  BY DEF LinkInv
<1>2. ASSUME NEW i \in Inserter, NEW r \in Request, Submit(i, r)
      PROVE  Unanswered'
  BY <1>1, <1>2 DEF Submit, Goto, Unanswered, TypeOK
<1>3. ASSUME NEW i \in Inserter,
             \/ SubmitInverted(i) \/ LookupHit(i) \/ PrevCross(i)
             \/ NextCross(i) \/ SaveNewFails(i) \/ Done(i)
      PROVE  Unanswered'
  <2>1. \E r \in Reply : Answer(i, r)
    BY <1>3 DEF SubmitInverted, LookupHit, PrevCross, NextCross,
                SaveNewFails, Done, Reply
  <2> QED
    BY <1>1, <2>1 DEF Answer, Unanswered, TypeOK
<1>4. ASSUME NEW i \in Inserter,
             \/ LookupMiss(i) \/ PrevEnd(i) \/ PrevParent(i) \/ PrevChild(i)
             \/ PrevDisjoint(i) \/ LookupParent(i) \/ NextEnd(i)
             \/ NextParent(i) \/ NextChild(i) \/ SaveNew(i) \/ SaveChild(i)
      PROVE  Unanswered'
  <2>1. pc[i] # "idle" /\ UNCHANGED reply
    BY <1>4 DEF LookupMiss, PrevEnd, PrevParent, PrevChild, PrevDisjoint,
                LookupParent, NextEnd, NextParent, NextChild, SaveNew, SaveChild
  <2>2. \A j \in Inserter \ {i} : pc'[j] = pc[j]
    BY <1>1, <1>4
       DEF LookupMiss, PrevEnd, PrevParent, PrevChild, PrevDisjoint,
           LookupParent, NextEnd, NextParent, NextChild, SaveNew, SaveChild,
           Goto, TypeOK
  <2> QED
    BY <2>1, <2>2 DEF Unanswered
<1>5. CASE UNCHANGED vars
  BY <1>5 DEF vars, Unanswered
<1> QED
  BY <1>2, <1>3, <1>4, <1>5 DEF Next, InsertTac

\* What the step that refuses a request with range_exist has just read.
Refused(i) == \E k \in DOMAIN tacData : k = req[i].key \/ Crosses(k, req[i].key)

LEMMA RefusalStep ==
    ASSUME LinkInv, Unanswered, [Next]_vars, NEW i \in Inserter,
           pc[i] # "idle", reply'[i] = "range_exist"
    PROVE  Refused(i)
<1>1. TypeOK /\ req[i] \in Request /\ req[i].key \in Key
  BY DEF LinkInv, TaskOK, Request
<1>2. reply[i] = "none"
  BY DEF Unanswered
<1>3. ASSUME NEW j \in Inserter, NEW r \in Request, Submit(j, r)
      PROVE  FALSE
  BY <1>1, <1>2, <1>3 DEF Submit, TypeOK
<1>4. ASSUME NEW j \in Inserter,
             SubmitInverted(j) \/ SaveNewFails(j) \/ Done(j)
      PROVE  FALSE
  BY <1>1, <1>2, <1>4 DEF SubmitInverted, SaveNewFails, Done, Answer, TypeOK
<1>5. ASSUME NEW j \in Inserter,
             \/ LookupMiss(j) \/ PrevEnd(j) \/ PrevParent(j) \/ PrevChild(j)
             \/ PrevDisjoint(j) \/ LookupParent(j) \/ NextEnd(j)
             \/ NextParent(j) \/ NextChild(j) \/ SaveNew(j) \/ SaveChild(j)
      PROVE  FALSE
  BY <1>2, <1>5
     DEF LookupMiss, PrevEnd, PrevParent, PrevChild, PrevDisjoint,
         LookupParent, NextEnd, NextParent, NextChild, SaveNew, SaveChild
<1>6. ASSUME NEW j \in Inserter, j # i, NEW r, Answer(j, r)
      PROVE  FALSE
  BY <1>1, <1>2, <1>6 DEF Answer, TypeOK
<1>7. CASE LookupHit(i)
  BY <1>7 DEF LookupHit, Refused
<1>8. CASE PrevCross(i)
  <2>1. PICK p \in DOMAIN tacData :
           /\ IsPrev(p, cursor[i])
           /\ ~Encloses(p, req[i].key)
           /\ ~Encloses(req[i].key, p)
           /\ EndOf(p) >= StartOf(req[i].key)
    BY <1>8 DEF PrevCross
  <2>2. p \in Key /\ Less(p, req[i].key)
    BY <1>8, <2>1, PrevMet DEF PrevCross
  <2>3. StartOf(p) <= EndOf(req[i].key)
    BY <1>1, <2>2, KeyFacts DEF Less, StartOf, EndOf
  <2> QED
    BY <1>1, <2>1, <2>2, <2>3, KeyFacts DEF Refused, Crosses, StartOf, EndOf
<1>9. CASE NextCross(i)
  <2>1. PICK n \in DOMAIN tacData :
           /\ IsNext(n, cursor[i])
           /\ ~Encloses(n, req[i].key)
           /\ ~Encloses(req[i].key, n)
           /\ StartOf(n) <= EndOf(req[i].key)
    BY <1>9 DEF NextCross
  <2>2. n \in Key /\ Less(req[i].key, n)
    BY <1>9, <2>1, NextMet DEF NextCross
  <2>3. StartOf(req[i].key) <= EndOf(n)
    BY <1>1, <2>2, KeyFacts DEF Less, StartOf, EndOf
  <2> QED
    BY <2>1, <2>3 DEF Refused, Crosses
<1>10. CASE UNCHANGED vars
  BY <1>2, <1>10 DEF vars
<1> QED
  BY <1>3, <1>4, <1>5, <1>6, <1>7, <1>8, <1>9, <1>10
     DEF Next, InsertTac, LookupHit, PrevCross, NextCross

\* A refusal is never spurious, however the table changed during the walk.
THEOREM RefusalsJustified == Spec => RejectionJustified
<1>1. Init => LinkInv /\ Unanswered
  <2>1. Init => TypeOK
    BY InitType
  <2> QED
    BY <2>1 DEF Init, LinkInv, LinkEncloses, TaskOK, Unanswered
<1>2. LinkInv /\ Unanswered /\ [Next]_vars => (LinkInv /\ Unanswered)'
  BY NextLink, NextUnanswered
<1>3. LinkInv /\ Unanswered /\ [Next]_vars =>
        [\A i \in Inserter :
            pc[i] # "idle" /\ reply'[i] = "range_exist" =>
                \E k \in DOMAIN tacData :
                    k = req[i].key \/ Crosses(k, req[i].key)]_vars
  BY RefusalStep DEF Refused
<1> QED
  BY <1>1, <1>2, <1>3, PTL DEF Spec, RejectionJustified

-----------------------------------------------------------------------------
(* The registry *)

\* What an inserter relies on while no other runs: since its lookup nobody
\* stored its key, and the copies it holds have the colour of the records they
\* replace.
SoleTask(i) ==
    /\ pc[i] \in {"prev", "lookupParent", "next", "save"} =>
          req[i].key \notin DOMAIN tacData
    /\ \A n \in 1..Len(listUpdate[i]) :
          LET rec == listUpdate[i][n] IN
          rec.Color = tacData[rec.KeyTac].Color

SeqInv == LinkInv /\ (~disturbed => \A i \in Inserter : SoleTask(i))

\* A step after which inserts still have not overlapped.
Quiet == SeqInv /\ LinkInv' /\ ~disturbed /\ ~Overlap' /\ ~LookupFailed

LEMMA NoReadFault ==
    ASSUME Quiet, NEW i \in Inserter, LookupMiss(i)
    PROVE  UNCHANGED faults
<1>1. TypeOK
  BY DEF Quiet, SeqInv, LinkInv
<1>2. pc[i] = "lookup" /\ pc'[i] = "prev"
  BY <1>1 DEF LookupMiss, Goto, TypeOK
<1> QED
  BY <1>2 DEF Quiet, LookupFailed

\* A step that leaves the table alone is no step of the registry.
LEMMA SequentialRead ==
    ASSUME Quiet, NEW i \in Inserter, UNCHANGED tacData, LocalStep(i),
           SoleTask(i)'
    PROVE  SeqInv' /\ UNCHANGED registered
<1>1. ASSUME NEW j \in Inserter \ {i}
      PROVE  SoleTask(j)'
  BY DEF Quiet, SeqInv, SoleTask, LocalStep
<1> QED
  BY <1>1 DEF Quiet, SeqInv, registered

\* While one inserter writes, the others are idle and hold no copies.
LEMMA SequentialWrite ==
    ASSUME Quiet, NEW i \in Inserter, pc'[i] # "idle", SoleTask(i)'
    PROVE  SeqInv'
<1>1. ASSUME NEW j \in Inserter \ {i}
      PROVE  SoleTask(j)'
  <2>1. pc'[j] = "idle"
    BY DEF Quiet, Overlap
  <2>2. listUpdate'[j] = <<>>
    BY <2>1 DEF Quiet, LinkInv, TaskOK
  <2> QED
    BY <2>1, <2>2 DEF SoleTask
<1> QED
  BY <1>1 DEF Quiet, SeqInv

\* Such a step registers a new range or leaves all as it was.
LEMMA SequentialStep ==
    ASSUME Quiet, [Next]_vars
    PROVE  SeqInv' /\ [Registry!Next]_registered
<1>a. LinkInv /\ LinkInv' /\ TypeOK /\ TypeOK'
  BY DEF Quiet, SeqInv, LinkInv
<1>b. \A i \in Inserter : SoleTask(i)
  BY DEF Quiet, SeqInv
<1>1. ASSUME NEW i \in Inserter, NEW r \in Request, Submit(i, r)
      PROVE  SeqInv' /\ UNCHANGED registered
  <2>1. LocalStep(i) /\ UNCHANGED tacData
    BY <1>a, <1>1 DEF Submit, Goto, LocalStep, TypeOK
  <2>2. SoleTask(i)'
    BY <1>a, <1>b, <1>1 DEF Submit, Goto, SoleTask, TypeOK
  <2> QED
    BY <2>1, <2>2, SequentialRead
<1>2. ASSUME NEW i \in Inserter,
             \/ SubmitInverted(i) \/ LookupHit(i) \/ PrevCross(i)
             \/ NextCross(i) \/ SaveNewFails(i) \/ Done(i)
      PROVE  SeqInv' /\ UNCHANGED registered
  <2>1. UNCHANGED tacData /\ \E r \in Reply : Answer(i, r)
    BY <1>2 DEF SubmitInverted, LookupHit, PrevCross, NextCross,
                SaveNewFails, Done, Reply
  <2>2. SoleTask(i)'
    BY <1>a, <2>1 DEF Answer, SoleTask, TypeOK
  <2>3. LocalStep(i)
    BY <1>a, <2>1, AnswerLocal
  <2> QED
    BY <2>1, <2>2, <2>3, SequentialRead
<1>3. ASSUME NEW i \in Inserter, LookupMiss(i)
      PROVE  SeqInv' /\ UNCHANGED registered
  <2>1. UNCHANGED <<tacData, req, bestParent, listUpdate>>
    BY <1>3 DEF LookupMiss
  <2>2. UNCHANGED faults
    BY <1>3, NoReadFault
  <2>3. faults \in Nat
    BY <1>a DEF TypeOK
  <2>4. req[i].key \notin DOMAIN tacData
    BY <1>3, <2>2, <2>3 DEF LookupMiss, Fail
  <2>5. SoleTask(i)'
    BY <1>b, <2>1, <2>4 DEF SoleTask
  <2>6. LocalStep(i)
    BY <1>a, <1>3, <2>1 DEF LookupMiss, Goto, LocalStep, TypeOK
  <2> QED
    BY <2>1, <2>5, <2>6, SequentialRead
<1>4. ASSUME NEW i \in Inserter,
             \/ PrevEnd(i) \/ PrevParent(i) \/ PrevDisjoint(i)
             \/ LookupParent(i) \/ NextEnd(i) \/ NextParent(i)
      PROVE  SeqInv' /\ UNCHANGED registered
  <2>1. /\ UNCHANGED <<tacData, req, listUpdate>>
        /\ pc[i] \in {"prev", "lookupParent", "next"}
    BY <1>4 DEF PrevEnd, PrevParent, PrevDisjoint, LookupParent, NextEnd,
                NextParent
  <2>2. SoleTask(i)'
    BY <1>b, <2>1 DEF SoleTask
  <2>3. LocalStep(i)
    BY <1>a, <1>4, <2>1
       DEF PrevEnd, PrevParent, PrevDisjoint, LookupParent, NextEnd,
           NextParent, Goto, LocalStep, TypeOK
  <2> QED
    BY <2>1, <2>2, <2>3, SequentialRead
<1>5. ASSUME NEW i \in Inserter, PrevChild(i) \/ NextChild(i)
      PROVE  SeqInv' /\ UNCHANGED registered
  <2>1. PICK p \in DOMAIN tacData :
           listUpdate' = [listUpdate EXCEPT
                             ![i] = Append(@, Relinked(p, req[i].key))]
    BY <1>5 DEF PrevChild, NextChild
  <2>2. UNCHANGED <<tacData, req>> /\ pc[i] \in {"prev", "next"}
    BY <1>5 DEF PrevChild, NextChild
  <2> DEFINE child == Relinked(p, req[i].key)
  <2>3. /\ child \in TacInfo
        /\ child.KeyTac = p
        /\ child.Color = tacData[p].Color
    <3>1. req[i].key \in Key
      BY <1>a, <2>2 DEF LinkInv, TaskOK, Request
    <3> QED
      BY <1>a, <3>1, RelinkedType DEF LinkInv
  <2>4. listUpdate[i] \in Seq(TacInfo) /\ listUpdate'[i] = Append(listUpdate[i], child)
    BY <1>a, <2>1 DEF TypeOK
  <2> HIDE DEF child
  <2>5. /\ Len(listUpdate'[i]) = Len(listUpdate[i]) + 1
        /\ Len(listUpdate[i]) \in Nat
        /\ listUpdate'[i][Len(listUpdate[i]) + 1] = child
        /\ \A n \in 1..Len(listUpdate[i]) : listUpdate'[i][n] = listUpdate[i][n]
    BY <2>3, <2>4
  <2>6. \A n \in 1..Len(listUpdate'[i]) :
           n \in 1..Len(listUpdate[i]) \/ n = Len(listUpdate[i]) + 1
    BY <2>5
  <2>7. SoleTask(i)'
    BY <1>b, <2>2, <2>3, <2>5, <2>6 DEF SoleTask
  <2>8. LocalStep(i)
    BY <1>a, <1>5, <2>2 DEF PrevChild, NextChild, Goto, LocalStep, TypeOK
  <2> QED
    BY <2>2, <2>7, <2>8, SequentialRead
<1>6. ASSUME NEW i \in Inserter, SaveNew(i)
      PROVE  SeqInv' /\ Registry!Next
  <2> DEFINE key == req[i].key
             color == req[i].Color
             rec == [KeyTac |-> key, Color |-> color,
                     PrevLink |-> bestParent[i]]
  <2>1. key \in Key /\ color \in Color /\ key \notin DOMAIN tacData
    BY <1>a, <1>b, <1>6 DEF SaveNew, LinkInv, TaskOK, Request, SoleTask
  <2>2. tacData' = Saved(rec)
    BY <1>6 DEF SaveNew
  <2>3. /\ DOMAIN tacData' = DOMAIN tacData \cup {key}
        /\ tacData'[key].Color = color
        /\ \A k \in DOMAIN tacData : tacData'[k] = tacData[k]
    BY <2>1, <2>2 DEF Saved
  <2>4. DOMAIN registered = DOMAIN tacData
    BY DEF registered
  <2>5. registered' = [x \in DOMAIN registered \cup {key} |->
                          IF x = key THEN color ELSE registered[x]]
    BY <2>1, <2>3, <2>4 DEF registered
  <2>6. Registry!Next
    BY <2>1, <2>4, <2>5 DEF Registry!Next, Registry!Register, Registry!Key, Key
  <2>7. SoleTask(i)'
    BY <1>a, <1>b, <1>6, <2>3
       DEF SaveNew, Goto, LinkInv, TaskOK, SoleTask, TypeOK
  <2>8. pc'[i] # "idle"
    BY <1>a, <1>6 DEF SaveNew, Goto, TypeOK
  <2> QED
    BY <2>6, <2>7, <2>8, SequentialWrite
<1>7. ASSUME NEW i \in Inserter, SaveChild(i)
      PROVE  SeqInv' /\ UNCHANGED registered
  <2> DEFINE rec == Head(listUpdate[i])
  <2>1. listUpdate[i] \in Seq(TacInfo) /\ listUpdate[i] # <<>>
    BY <1>a, <1>7 DEF SaveChild, TypeOK
  <2>2. rec = listUpdate[i][1] /\ 1 \in 1..Len(listUpdate[i])
    BY <2>1
  <2>3. rec.KeyTac \in DOMAIN tacData /\ rec.Color = tacData[rec.KeyTac].Color
    BY <1>a, <1>b, <2>2 DEF LinkInv, TaskOK, SoleTask
  <2>4. /\ DOMAIN tacData' = DOMAIN tacData
        /\ \A k \in DOMAIN tacData : tacData'[k].Color = tacData[k].Color
    BY <1>7, <2>3 DEF SaveChild, Saved
  <2>5. UNCHANGED registered
    BY <2>4 DEF registered
  <2>6. /\ Len(Tail(listUpdate[i])) \in Nat
        /\ \A n \in 1..Len(Tail(listUpdate[i])) :
              /\ n + 1 \in 1..Len(listUpdate[i])
              /\ Tail(listUpdate[i])[n] = listUpdate[i][n + 1]
    BY <2>1
  <2>7. /\ listUpdate'[i] = Tail(listUpdate[i])
        /\ UNCHANGED <<pc, req>>
        /\ pc[i] = "children"
    BY <1>a, <1>7 DEF SaveChild, TypeOK
  <2>8. SoleTask(i)'
    BY <1>a, <1>b, <2>4, <2>6, <2>7 DEF LinkInv, TaskOK, SoleTask
  <2>9. pc'[i] # "idle"
    BY <2>7
  <2> QED
    BY <2>5, <2>8, <2>9, SequentialWrite
<1>8. CASE UNCHANGED vars
  BY <1>a, <1>b, <1>8 DEF vars, SeqInv, SoleTask, registered
<1> QED
  BY <1>1, <1>2, <1>3, <1>4, <1>5, <1>6, <1>7, <1>8 DEF Next, InsertTac

LEMMA SeqKept ==
    ASSUME SeqInv, [Next]_vars
    PROVE  SeqInv' /\ [Registry!Next \/ disturbed']_registered
<1>1. LinkInv'
  BY NextLink DEF SeqInv
<1>2. CASE disturbed'
  BY <1>1, <1>2 DEF SeqInv
<1>3. CASE UNCHANGED vars
  BY <1>1, <1>3 DEF vars, SeqInv, SoleTask, registered
<1>4. CASE ~disturbed' /\ Next
  <2>1. Quiet
    BY <1>1, <1>4 DEF Next, Watched, Quiet
  <2> QED
    BY <2>1, SequentialStep
<1> QED
  BY <1>2, <1>3, <1>4

\* Until inserts overlap or a lookup fails, the table keeps the promise of the
\* registry: no range is registered twice, dropped or recoloured, even when
\* saves fail between a range and its children.
THEOREM RefinesRegistry == Spec => ImplementsRegistry
<1>1. Init => SeqInv
  <2>1. Init => TypeOK
    BY InitType
  <2> QED
    BY <2>1 DEF Init, SeqInv, SoleTask, LinkInv, LinkEncloses, TaskOK
<1>2. SeqInv /\ [Next]_vars =>
        SeqInv' /\ [Registry!Next \/ disturbed']_registered
  BY SeqKept
<1>3. Init => Registry!Init
  BY DEF Init, Registry!Init, registered
<1> QED
  BY <1>1, <1>2, <1>3, PTL DEF Spec, ImplementsRegistry

-----------------------------------------------------------------------------
(***************************************************************************)
(* Adjacent ranges.  The walks of an inserter that runs alone see the      *)
(* table as it is when its range is saved: one that encloses the new range *)
(* and is next to it has become bestParent, or made it more than Nil, and  *)
(* one the new range encloses and is next to is on listUpdate.             *)
(***************************************************************************)
Listed(i, k) == \E m \in 1..Len(listUpdate[i]) : listUpdate[i][m].KeyTac = k

ParentFound(i) ==
    \A p \in DOMAIN tacData :
        IsPrev(p, req[i].key) /\ Encloses(p, req[i].key) => bestParent[i] # Nil

ChildListed(i) ==
    \A n \in DOMAIN tacData :
        IsNext(n, req[i].key) /\ Encloses(req[i].key, n) => Listed(i, n)

\* A walk that has left the new range's own place has met its neighbour.
WalkTask(i) ==
    /\ pc[i] = "prev" => cursor[i] = req[i].key \/ ParentFound(i)
    /\ pc[i] \in {"lookupParent", "next", "save"} => ParentFound(i)
    /\ pc[i] = "next" => cursor[i] = req[i].key \/ ChildListed(i)
    /\ pc[i] = "save" => ChildListed(i)

\* Between the save of a range and those of its children, a child's link is
\* still to be written.
LinkedOrListed ==
    \A k, p \in DOMAIN tacData :
        IsPrev(p, k) /\ Encloses(p, k) =>
            \/ tacData[k].PrevLink # Nil
            \/ \E i \in Inserter : pc[i] = "children" /\ Listed(i, k)

NestTask == LinkedOrListed /\ \A i \in Inserter : WalkTask(i)

NestInv == SeqInv /\ (~disturbed /\ faults = 0 => NestTask)

LEMMA LessTotal ==
    ASSUME NEW a \in Key, NEW b \in Key, ~Less(a, b), ~Less(b, a)
    PROVE  a = b
<1>1. a[1] = b[1] /\ a[2] = b[2]
  BY KeyFacts DEF Less
<1> QED
  BY <1>1, KeyFacts

LEMMA OneNeighbour ==
    ASSUME TypeOK, NEW k, NEW a \in DOMAIN tacData, NEW b \in DOMAIN tacData
    PROVE  /\ IsPrev(a, k) /\ IsPrev(b, k) => a = b
           /\ IsNext(a, k) /\ IsNext(b, k) => a = b
<1>1. a \in Key /\ b \in Key
  BY DEF TypeOK
<1> QED
  BY <1>1, LessTotal DEF IsPrev, IsNext

\* Ranges that enclose each other are the same.
LEMMA EnclosesOnce ==
    ASSUME NEW a \in Key, NEW b \in Key, Encloses(a, b), Encloses(b, a)
    PROVE  a = b
<1>1. a[1] = b[1] /\ a[2] = b[2]
  BY KeyFacts DEF Encloses, StartOf, EndOf
<1> QED
  BY <1>1, KeyFacts

LEMMA DisjointApart ==
    ASSUME NEW a \in Key, NEW b \in Key, EndOf(a) < StartOf(b)
    PROVE  ~Encloses(a, b) /\ ~Encloses(b, a)
BY KeyFacts DEF Encloses, StartOf, EndOf

\* A step without a fault in a table nobody else works on.
Alone == Quiet /\ NestTask /\ faults = 0 /\ faults' = 0

LEMMA NoFault ==
    ASSUME Alone, NEW kind
    PROVE  ~Fail(kind)
BY DEF Alone, Fail

\* A step that leaves the table alone.
LEMMA NestRead ==
    ASSUME Alone, NEW i \in Inserter, UNCHANGED tacData, LocalStep(i),
           pc[i] # "children" \/ listUpdate[i] = <<>>, WalkTask(i)'
    PROVE  NestTask'
<1>1. ASSUME NEW j \in Inserter \ {i} PROVE WalkTask(j)'
  BY DEF Alone, NestTask, WalkTask, LocalStep, ParentFound, ChildListed,
         Listed, IsPrev, IsNext, Below, Above
<1>2. ASSUME NEW j \in Inserter, NEW k, pc[j] = "children", Listed(j, k)
      PROVE  pc'[j] = "children" /\ Listed(j, k)'
  <2>1. j # i
    BY <1>2 DEF Listed
  <2> QED
    BY <1>2, <2>1 DEF LocalStep, Listed
<1>3. LinkedOrListed'
  <2> SUFFICES ASSUME NEW k \in DOMAIN tacData, NEW p \in DOMAIN tacData,
                      IsPrev(p, k), Encloses(p, k), tacData[k].PrevLink = Nil
               PROVE  \E j \in Inserter : pc'[j] = "children" /\ Listed(j, k)'
    BY DEF LinkedOrListed, IsPrev, Below
  <2>1. PICK j \in Inserter : pc[j] = "children" /\ Listed(j, k)
    BY DEF Alone, NestTask, LinkedOrListed
  <2> QED
    BY <1>2, <2>1
<1> QED
  BY <1>1, <1>3 DEF NestTask

\* What a walk met next to the new range settles the question.
LEMMA PrevSettles ==
    ASSUME Alone, NEW i \in Inserter, pc[i] = "prev",
           NEW p \in DOMAIN tacData, IsPrev(p, cursor[i]),
           ~Encloses(p, req[i].key)
    PROVE  ParentFound(i)
<1>1. TypeOK /\ WalkTask(i)
  BY DEF Alone, Quiet, SeqInv, LinkInv, NestTask
<1>2. ASSUME cursor[i] = req[i].key PROVE ParentFound(i)
  BY <1>1, <1>2, OneNeighbour DEF ParentFound
<1> QED
  BY <1>1, <1>2 DEF WalkTask

LEMMA NextSettles ==
    ASSUME Alone, NEW i \in Inserter, pc[i] = "next",
           NEW n \in DOMAIN tacData, IsNext(n, cursor[i]),
           ~Encloses(req[i].key, n)
    PROVE  ChildListed(i)
<1>1. TypeOK /\ WalkTask(i)
  BY DEF Alone, Quiet, SeqInv, LinkInv, NestTask
<1>2. ASSUME cursor[i] = req[i].key PROVE ChildListed(i)
  BY <1>1, <1>2, OneNeighbour DEF ChildListed
<1> QED
  BY <1>1, <1>2 DEF WalkTask

\* What was found stays found.
LEMMA FoundKept ==
    ASSUME NEW i \in Inserter, UNCHANGED tacData, req'[i] = req[i]
    PROVE  /\ ParentFound(i) /\ bestParent'[i] = bestParent[i] => ParentFound(i)'
           /\ bestParent'[i] # Nil => ParentFound(i)'
           /\ ChildListed(i) /\ listUpdate'[i] = listUpdate[i] => ChildListed(i)'
BY DEF ParentFound, ChildListed, Listed, IsPrev, IsNext, Below, Above

LEMMA TighterMet ==
    ASSUME NEW p \in Key, NEW best PROVE Tighter(p, best) # Nil
BY NilAssumption DEF Tighter

LEMMA PrevWalk ==
    ASSUME Alone, NEW i \in Inserter,
           \/ LookupMiss(i) \/ PrevEnd(i) \/ PrevParent(i) \/ PrevChild(i)
           \/ PrevDisjoint(i) \/ LookupParent(i)
    PROVE  WalkTask(i)' /\ UNCHANGED tacData /\ LocalStep(i)
           /\ pc[i] # "children"
<1>0. TypeOK /\ LinkInv /\ WalkTask(i)
  BY DEF Alone, Quiet, SeqInv, LinkInv, NestTask
<1>1. UNCHANGED <<tacData, req>> /\ pc[i] # "children"
  BY DEF LookupMiss, PrevEnd, PrevParent, PrevChild, PrevDisjoint, LookupParent
<1>2. LocalStep(i)
  BY <1>0, <1>1
     DEF LookupMiss, PrevEnd, PrevParent, PrevChild, PrevDisjoint,
         LookupParent, Goto, LocalStep, TypeOK
<1>3. CASE LookupMiss(i)
  <2>1. pc'[i] = "prev" /\ cursor'[i] = req'[i].key
    BY <1>0, <1>1, <1>3, GotoLocal DEF LookupMiss
  <2> QED
    BY <1>1, <1>2, <2>1 DEF WalkTask
<1>4. CASE PrevParent(i)
  <2>1. PICK p \in DOMAIN tacData :
           /\ bestParent' = [bestParent EXCEPT ![i] = Tighter(p, @)]
           /\ Goto(i, "prev", p)
    BY <1>4 DEF PrevParent
  <2>2. bestParent'[i] # Nil
    BY <1>0, <2>1, TighterMet DEF TypeOK
  <2>3. ParentFound(i)' /\ pc'[i] = "prev"
    BY <1>0, <1>1, <2>1, <2>2, FoundKept, GotoLocal
  <2> QED
    BY <1>1, <1>2, <2>3 DEF WalkTask
<1>5. CASE PrevChild(i)
  <2>1. PICK p \in DOMAIN tacData :
           IsPrev(p, cursor[i]) /\ ~Encloses(p, req[i].key) /\ Goto(i, "prev", p)
    BY <1>5 DEF PrevChild
  <2>2. ParentFound(i)
    BY <1>5, <2>1, PrevSettles DEF PrevChild
  <2>3. ParentFound(i)' /\ pc'[i] = "prev"
    BY <1>0, <1>1, <1>5, <2>1, <2>2, FoundKept, GotoLocal DEF PrevChild
  <2> QED
    BY <1>1, <1>2, <2>3 DEF WalkTask
<1>6. CASE PrevEnd(i)
  <2>1. Below(cursor[i]) = {} /\ Goto(i, "next", req[i].key) /\ pc[i] = "prev"
        /\ UNCHANGED bestParent
    BY <1>6, NoFault DEF PrevEnd
  <2>2. ParentFound(i)
    BY <1>0, <2>1 DEF WalkTask, ParentFound, IsPrev
  <2>3. ParentFound(i)' /\ pc'[i] = "next" /\ cursor'[i] = req'[i].key
    BY <1>0, <1>1, <2>1, <2>2, FoundKept, GotoLocal
  <2> QED
    BY <1>1, <1>2, <2>3 DEF WalkTask
<1>7. CASE PrevDisjoint(i)
  <2>1. PICK p \in DOMAIN tacData :
           /\ IsPrev(p, cursor[i]) /\ EndOf(p) < StartOf(req[i].key)
           /\ \/ Goto(i, "next", req[i].key)
              \/ Goto(i, "lookupParent", tacData[p].PrevLink)
    BY <1>7 DEF PrevDisjoint
  <2>2. p \in Key /\ req[i].key \in Key /\ pc[i] = "prev" /\ UNCHANGED bestParent
    BY <1>0, <1>7 DEF PrevDisjoint, TypeOK, LinkInv, TaskOK, Request
  <2>3. ParentFound(i)
    BY <2>1, <2>2, DisjointApart, PrevSettles
  <2>4. ParentFound(i)'
    BY <1>1, <2>2, <2>3, FoundKept
  <2>5. \/ pc'[i] = "next" /\ cursor'[i] = req'[i].key
        \/ pc'[i] = "lookupParent"
    BY <1>0, <1>1, <2>1, GotoLocal
  <2> QED
    BY <1>1, <1>2, <2>4, <2>5 DEF WalkTask
<1>8. CASE LookupParent(i)
  <2>1. ParentFound(i) /\ Goto(i, "next", req[i].key)
    BY <1>0, <1>8 DEF LookupParent, WalkTask
  <2>2. bestParent'[i] = bestParent[i] \/ bestParent'[i] # Nil
    BY <1>0, <1>8, TighterMet DEF LookupParent, TypeOK
  <2>3. ParentFound(i)' /\ pc'[i] = "next" /\ cursor'[i] = req'[i].key
    BY <1>0, <1>1, <2>1, <2>2, FoundKept, GotoLocal
  <2> QED
    BY <1>1, <1>2, <2>3 DEF WalkTask
<1> QED
  BY <1>3, <1>4, <1>5, <1>6, <1>7, <1>8

LEMMA NextWalk ==
    ASSUME Alone, NEW i \in Inserter,
           NextEnd(i) \/ NextParent(i) \/ NextChild(i)
    PROVE  WalkTask(i)' /\ UNCHANGED tacData /\ LocalStep(i)
           /\ pc[i] # "children"
<1>0. TypeOK /\ LinkInv /\ WalkTask(i)
  BY DEF Alone, Quiet, SeqInv, LinkInv, NestTask
<1>1. UNCHANGED <<tacData, req>> /\ pc[i] = "next"
  BY DEF NextEnd, NextParent, NextChild
<1>2. LocalStep(i)
  BY <1>0, <1>1 DEF NextEnd, NextParent, NextChild, Goto, LocalStep, TypeOK
<1>3. ParentFound(i) /\ req[i].key \in Key
  BY <1>0, <1>1 DEF WalkTask, LinkInv, TaskOK, Request
<1>4. CASE NextEnd(i)
  <2>1. /\ \/ Above(cursor[i]) = {}
           \/ \E n \in DOMAIN tacData :
                 IsNext(n, cursor[i]) /\ StartOf(n) > EndOf(req[i].key)
        /\ Goto(i, "save", req[i].key) /\ UNCHANGED <<bestParent, listUpdate>>
    BY <1>4, NoFault DEF NextEnd
  <2>2. ASSUME NEW n \in DOMAIN tacData, IsNext(n, cursor[i]),
               StartOf(n) > EndOf(req[i].key)
        PROVE  ChildListed(i)
    <3>1. n \in Key /\ EndOf(req[i].key) < StartOf(n)
      BY <1>0, <1>3, <2>2, KeyFacts DEF TypeOK, StartOf, EndOf
    <3> QED
      BY <1>1, <1>3, <2>2, <3>1, DisjointApart, NextSettles
  <2>3. ASSUME Above(cursor[i]) = {} PROVE ChildListed(i)
    BY <1>0, <1>1, <2>3 DEF WalkTask, ChildListed, IsNext
  <2>4. ParentFound(i)' /\ ChildListed(i)' /\ pc'[i] = "save"
    BY <1>0, <1>1, <1>3, <2>1, <2>2, <2>3, FoundKept, GotoLocal
  <2> QED
    BY <1>1, <1>2, <2>4 DEF WalkTask
<1>5. CASE NextParent(i)
  <2>1. PICK n \in DOMAIN tacData :
           /\ IsNext(n, cursor[i]) /\ Encloses(n, req[i].key)
           /\ bestParent' = [bestParent EXCEPT ![i] = Tighter(n, @)]
           /\ Goto(i, "next", n) /\ UNCHANGED listUpdate
    BY <1>5 DEF NextParent
  <2>2. bestParent'[i] # Nil
    BY <1>0, <2>1, TighterMet DEF TypeOK
  <2>3. n \in Key /\ n # req[i].key
    BY <1>0, <1>1, <2>1, NextMet
  <2>4. ChildListed(i)
    BY <1>1, <1>3, <2>1, <2>3, EnclosesOnce, NextSettles
  <2>5. ParentFound(i)' /\ ChildListed(i)' /\ pc'[i] = "next"
    BY <1>0, <1>1, <2>1, <2>2, <2>4, FoundKept, GotoLocal
  <2> QED
    BY <1>1, <1>2, <2>5 DEF WalkTask
<1>6. CASE NextChild(i)
  <2>1. PICK n \in DOMAIN tacData :
           /\ IsNext(n, cursor[i])
           /\ listUpdate' = [listUpdate EXCEPT
                                ![i] = Append(@, Relinked(n, req[i].key))]
           /\ Goto(i, "next", n) /\ UNCHANGED bestParent
    BY <1>6 DEF NextChild
  <2> DEFINE child == Relinked(n, req[i].key)
  <2>2. child \in TacInfo /\ child.KeyTac = n
    BY <1>0, <1>3, RelinkedType DEF LinkInv
  <2>3. listUpdate[i] \in Seq(TacInfo) /\ listUpdate'[i] = Append(listUpdate[i], child)
    BY <1>0, <2>1 DEF TypeOK
  <2> HIDE DEF child
  <2>4. /\ Len(listUpdate'[i]) = Len(listUpdate[i]) + 1
        /\ Len(listUpdate[i]) \in Nat
        /\ listUpdate'[i][Len(listUpdate[i]) + 1] = child
        /\ \A m \in 1..Len(listUpdate[i]) : listUpdate'[i][m] = listUpdate[i][m]
    BY <2>2, <2>3
  <2>5. \A m \in 1..Len(listUpdate[i]) : m \in 1..Len(listUpdate'[i])
    BY <2>4
  <2>6. Len(listUpdate[i]) + 1 \in 1..Len(listUpdate'[i])
    BY <2>4
  <2>7. Listed(i, n)' /\ \A k : Listed(i, k) => Listed(i, k)'
    BY <2>2, <2>4, <2>5, <2>6 DEF Listed
  <2>8. ChildListed(i)'
    <3> SUFFICES ASSUME NEW k \in DOMAIN tacData, IsNext(k, req[i].key),
                        Encloses(req[i].key, k)
                 PROVE  Listed(i, k)'
      BY <1>1 DEF ChildListed, IsNext, Above
    <3>1. CASE cursor[i] = req[i].key
      BY <1>0, <2>1, <2>7, <3>1, OneNeighbour
    <3>2. CASE cursor[i] # req[i].key
      BY <1>0, <1>1, <2>7, <3>2 DEF WalkTask, ChildListed
    <3> QED
      BY <3>1, <3>2
  <2>9. ParentFound(i)' /\ pc'[i] = "next"
    BY <1>0, <1>1, <1>3, <2>1, FoundKept, GotoLocal
  <2> QED
    BY <1>1, <1>2, <2>8, <2>9 DEF WalkTask
<1> QED
  BY <1>4, <1>5, <1>6

\* The new range comes between two neighbours: it is linked if the one before
\* encloses it, and has the one after on its list if it encloses that.
LEMMA SaveNewNests ==
    ASSUME Alone, NEW i \in Inserter, SaveNew(i)
    PROVE  NestTask'
<1> DEFINE key == req[i].key
<1>0. TypeOK /\ LinkInv /\ WalkTask(i) /\ SoleTask(i) /\ ~Overlap'
  BY DEF Alone, Quiet, SeqInv, LinkInv, NestTask
<1>1. pc[i] = "save" /\ UNCHANGED <<listUpdate, req, bestParent>>
      /\ pc'[i] = "children" /\ \A j \in Inserter \ {i} : pc'[j] = pc[j]
  BY <1>0, GotoLocal DEF SaveNew
<1>2. key \in Key /\ key \notin DOMAIN tacData
  BY <1>0, <1>1 DEF LinkInv, TaskOK, Request, SoleTask
<1>3. /\ DOMAIN tacData' = DOMAIN tacData \cup {key}
      /\ tacData'[key].PrevLink = bestParent[i]
      /\ \A k \in DOMAIN tacData : tacData'[k] = tacData[k]
  BY <1>2 DEF SaveNew, Saved
<1>4. \A j \in Inserter \ {i} : pc'[j] = "idle"
  BY <1>1 DEF Alone, Quiet, Overlap
<1>5. \A j \in Inserter : WalkTask(j)'
  BY <1>1, <1>4 DEF WalkTask
<1>6. ParentFound(i) /\ ChildListed(i)
  BY <1>0, <1>1 DEF WalkTask
<1> HIDE DEF key
<1>7. ASSUME NEW k \in DOMAIN tacData', NEW p \in DOMAIN tacData',
             IsPrev(p, k)', Encloses(p, k), tacData'[k].PrevLink = Nil
      PROVE  \E j \in Inserter : pc'[j] = "children" /\ Listed(j, k)'
  <2>0. ~Less(key, key) /\ Less(p, k)
    BY <1>2, <1>7, LessStrict DEF IsPrev, Below
  <2>1. \A x \in DOMAIN tacData : Less(x, k) => ~Less(p, x)
    BY <1>3, <1>7 DEF IsPrev, Below
  <2>2. CASE k = key
    <3>1. p \in DOMAIN tacData
      BY <1>3, <2>0, <2>2
    <3>2. IsPrev(p, key)
      BY <2>0, <2>1, <2>2, <3>1 DEF IsPrev, Below
    <3> QED
      BY <1>3, <1>6, <1>7, <2>2, <3>1, <3>2 DEF ParentFound, key
  <2>3. CASE k # key /\ p = key
    <3>1. k \in DOMAIN tacData /\ IsNext(k, key)
      BY <1>3, <2>0, <2>1, <2>3 DEF IsNext, Above
    <3>2. Listed(i, k)
      BY <1>6, <1>7, <2>3, <3>1 DEF ChildListed, key
    <3> QED
      BY <1>1, <3>2 DEF Listed
  <2>4. CASE k # key /\ p # key
    <3>1. k \in DOMAIN tacData /\ p \in DOMAIN tacData /\ IsPrev(p, k)
      BY <1>3, <2>0, <2>1, <2>4 DEF IsPrev, Below
    <3>2. PICK j \in Inserter : pc[j] = "children" /\ Listed(j, k)
      BY <1>3, <1>7, <3>1 DEF Alone, NestTask, LinkedOrListed
    <3>3. FALSE
      BY <1>1, <1>4, <3>2
    <3> QED
      BY <3>3
  <2> QED
    BY <2>2, <2>3, <2>4
<1> QED
  BY <1>5, <1>7 DEF NestTask, LinkedOrListed

LEMMA SaveChildNests ==
    ASSUME Alone, NEW i \in Inserter, SaveChild(i)
    PROVE  NestTask'
<1> DEFINE rec == Head(listUpdate[i])
<1>0. TypeOK /\ LinkInv
  BY DEF Alone, Quiet, SeqInv, LinkInv
<1>1. listUpdate[i] \in Seq(TacInfo) /\ listUpdate[i] # <<>>
      /\ pc[i] = "children" /\ UNCHANGED <<pc, req, cursor, bestParent>>
      /\ listUpdate' = [listUpdate EXCEPT ![i] = Tail(@)]
  BY <1>0 DEF SaveChild, TypeOK
<1>2. rec = listUpdate[i][1] /\ 1 \in 1..Len(listUpdate[i])
  BY <1>1
<1>3. rec.KeyTac \in DOMAIN tacData /\ rec.PrevLink = req[i].key
      /\ req[i].key \in Key
  BY <1>0, <1>1, <1>2 DEF LinkInv, TaskOK, Request
<1>4. tacData' = Saved(rec)
  BY NoFault DEF SaveChild
<1>5. /\ DOMAIN tacData' = DOMAIN tacData
      /\ \A k \in DOMAIN tacData :
            tacData'[k].PrevLink =
               IF k = rec.KeyTac THEN req[i].key ELSE tacData[k].PrevLink
  BY <1>3, <1>4 DEF Saved
<1>6. /\ Len(Tail(listUpdate[i])) = Len(listUpdate[i]) - 1
      /\ Len(listUpdate[i]) \in Nat
      /\ \A m \in 1..Len(Tail(listUpdate[i])) :
            Tail(listUpdate[i])[m] = listUpdate[i][m + 1]
  BY <1>1
<1>7. \A j \in Inserter \ {i} : pc'[j] = "idle"
  BY <1>1 DEF Alone, Quiet, Overlap
<1>8. \A j \in Inserter : WalkTask(j)'
  BY <1>1, <1>7 DEF WalkTask
<1>9. ASSUME NEW k, Listed(i, k), k # rec.KeyTac PROVE Listed(i, k)'
  <2>1. PICK m \in 1..Len(listUpdate[i]) : listUpdate[i][m].KeyTac = k
    BY <1>9 DEF Listed
  <2>2. m # 1
    BY <1>2, <1>9, <2>1
  <2>3. m - 1 \in 1..Len(Tail(listUpdate[i])) /\ (m - 1) + 1 = m
    BY <1>6, <2>2
  <2>4. listUpdate'[i] = Tail(listUpdate[i])
    BY <1>0, <1>1 DEF TypeOK
  <2>5. listUpdate'[i][m - 1].KeyTac = k
    BY <1>6, <2>1, <2>3, <2>4
  <2> QED
    BY <2>3, <2>4, <2>5 DEF Listed
<1> HIDE DEF rec
<1>10. ASSUME NEW k \in DOMAIN tacData, NEW p \in DOMAIN tacData,
              IsPrev(p, k), Encloses(p, k), tacData'[k].PrevLink = Nil
       PROVE  \E j \in Inserter : pc'[j] = "children" /\ Listed(j, k)'
  <2>1. k # rec.KeyTac /\ tacData[k].PrevLink = Nil
    BY <1>3, <1>5, <1>10, NilAssumption
  <2>2. PICK j \in Inserter : pc[j] = "children" /\ Listed(j, k)
    BY <1>10, <2>1 DEF Alone, NestTask, LinkedOrListed
  <2>3. j = i
    BY <1>1, <1>7, <2>2
  <2> QED
    BY <1>1, <1>9, <2>1, <2>2, <2>3
<1> QED
  BY <1>5, <1>8, <1>10 DEF NestTask, LinkedOrListed, IsPrev, Below

LEMMA NextNests ==
    ASSUME Alone, [Next]_vars
    PROVE  NestTask'
<1>a. TypeOK
  BY DEF Alone, Quiet, SeqInv, LinkInv
<1>1. ASSUME NEW i \in Inserter, NEW r \in Request, Submit(i, r)
      PROVE  NestTask'
  <2>1. LocalStep(i) /\ UNCHANGED tacData /\ pc[i] # "children"
        /\ pc'[i] = "lookup"
    BY <1>a, <1>1 DEF Submit, Goto, LocalStep, TypeOK
  <2>2. WalkTask(i)'
    BY <2>1 DEF WalkTask
  <2> QED
    BY <2>1, <2>2, NestRead
<1>2. ASSUME NEW i \in Inserter,
             \/ SubmitInverted(i) \/ LookupHit(i) \/ PrevCross(i)
             \/ NextCross(i) \/ SaveNewFails(i) \/ Done(i)
      PROVE  NestTask'
  <2>1. UNCHANGED tacData /\ \E r \in Reply : Answer(i, r)
    BY <1>2 DEF SubmitInverted, LookupHit, PrevCross, NextCross,
                SaveNewFails, Done, Reply
  <2>2. LocalStep(i) /\ pc'[i] = "idle"
    BY <1>a, <2>1, AnswerLocal DEF Answer, TypeOK
  <2>3. pc[i] # "children" \/ listUpdate[i] = <<>>
    BY <1>2 DEF SubmitInverted, LookupHit, PrevCross, NextCross,
                SaveNewFails, Done
  <2>4. WalkTask(i)'
    BY <2>2 DEF WalkTask
  <2> QED
    BY <2>1, <2>2, <2>3, <2>4, NestRead
<1>3. ASSUME NEW i \in Inserter,
             \/ LookupMiss(i) \/ PrevEnd(i) \/ PrevParent(i) \/ PrevChild(i)
             \/ PrevDisjoint(i) \/ LookupParent(i)
      PROVE  NestTask'
  BY <1>3, PrevWalk, NestRead
<1>4. ASSUME NEW i \in Inserter, NextEnd(i) \/ NextParent(i) \/ NextChild(i)
      PROVE  NestTask'
  BY <1>4, NextWalk, NestRead
<1>5. ASSUME NEW i \in Inserter, SaveNew(i) \/ SaveChild(i)
      PROVE  NestTask'
  BY <1>5, SaveNewNests, SaveChildNests
<1>6. CASE UNCHANGED vars
  BY <1>6 DEF vars, Alone, NestTask, LinkedOrListed, WalkTask, ParentFound,
              ChildListed, Listed, IsPrev, IsNext, Below, Above
<1> QED
  BY <1>1, <1>2, <1>3, <1>4, <1>5, <1>6 DEF Next, InsertTac

LEMMA FaultsGrow ==
    ASSUME TypeOK, Next, faults' = 0
    PROVE  faults = 0
<1>1. faults \in Nat
  BY DEF TypeOK
<1>2. UNCHANGED faults \/ \E kind : Fail(kind)
  BY DEF Next, InsertTac, Submit, SubmitInverted, LookupHit, LookupMiss,
         PrevEnd, PrevParent, PrevChild, PrevCross, PrevDisjoint, LookupParent,
         NextEnd, NextParent, NextChild, NextCross, SaveNew, SaveNewFails,
         SaveChild, Done
<1> QED
  BY <1>1, <1>2 DEF Fail

\* A range stored next to one that encloses it has a link, whichever of the
\* two was inserted last, as long as inserts have not overlapped and no call
\* has failed: the two walks of InsertTac miss no neighbour.
THEOREM NeighboursLinked == Spec => []AdjacentNestingLinked
<1>1. Init => NestInv
  <2> SUFFICES ASSUME Init PROVE NestInv
    OBVIOUS
  <2>1. SeqInv
    BY InitType DEF Init, SeqInv, SoleTask, LinkInv, LinkEncloses, TaskOK
  <2>2. NestTask
    BY DEF Init, NestTask, LinkedOrListed, WalkTask
  <2> QED
    BY <2>1, <2>2 DEF NestInv
<1>2. ASSUME NestInv, [Next]_vars PROVE NestInv'
  <2>1. SeqInv'
    BY <1>2, SeqKept DEF NestInv
  <2>2. ASSUME ~disturbed', faults' = 0 PROVE NestTask'
    <3>1. LinkInv' /\ LinkInv
      BY <1>2, NextLink DEF NestInv, SeqInv
    <3>2. CASE UNCHANGED vars
      BY <1>2, <2>2, <3>2
         DEF vars, NestInv, NestTask, LinkedOrListed, WalkTask, ParentFound,
             ChildListed, Listed, IsPrev, IsNext, Below, Above
    <3>3. CASE Next
      <4>1. faults = 0
        BY <2>2, <3>1, <3>3, FaultsGrow DEF LinkInv
      <4>2. Quiet /\ NestTask
        BY <1>2, <2>2, <3>1, <3>3, <4>1 DEF Next, Watched, NestInv, Quiet
      <4> QED
        BY <1>2, <2>2, <4>1, <4>2, NextNests DEF Alone
    <3> QED
      BY <1>2, <3>2, <3>3
  <2> QED
    BY <2>1, <2>2 DEF NestInv
<1>3. NestInv => AdjacentNestingLinked
  BY DEF NestInv, NestTask, LinkedOrListed, AdjacentNestingLinked
<1> QED
  BY <1>1, <1>2, <1>3, PTL DEF Spec

-----------------------------------------------------------------------------
(***************************************************************************)
(* What Answered rests on, said without fairness: an inserter goes on with *)
(* every call it makes, and nobody else sends it back.                     *)
(***************************************************************************)

\* How far along InsertTac a call is.
Stage(call) ==
    CASE call = "lookup"       -> 1
      [] call = "prev"         -> 2
      [] call = "lookupParent" -> 3
      [] call = "next"         -> 4
      [] call = "save"         -> 5
      [] call = "children"     -> 6
      [] call = "idle"         -> 7

\* To a later call, or along the walk, or to the next copy.
Advances(i) ==
    \/ Stage(pc[i]) < Stage(pc'[i])
    \/ pc[i] = "prev" /\ pc'[i] = "prev" /\ Less(cursor'[i], cursor[i])
    \/ pc[i] = "next" /\ pc'[i] = "next" /\ Less(cursor[i], cursor'[i])
    \/ /\ pc[i] = "children" /\ pc'[i] = "children"
       /\ Len(listUpdate'[i]) < Len(listUpdate[i])

Stays(i) == UNCHANGED <<pc[i], req[i], cursor[i], bestParent[i], listUpdate[i]>>

GoesOn ==
    \A i \in Inserter :
        /\ InsertTac(i) => Advances(i)
        /\ pc[i] # "idle" => Advances(i) \/ Stays(i)

LEMMA Stages ==
    /\ Stage("lookup") = 1 /\ Stage("prev") = 2 /\ Stage("lookupParent") = 3
    /\ Stage("next") = 4 /\ Stage("save") = 5 /\ Stage("children") = 6
    /\ Stage("idle") = 7
BY DEF Stage

LEMMA InsertAdvances ==
    ASSUME TypeOK, NEW i \in Inserter, InsertTac(i)
    PROVE  Advances(i)
<1>a. \A call, key : Goto(i, call, key) => pc'[i] = call /\ cursor'[i] = key
  BY DEF TypeOK, Goto
<1>b. \A r : Answer(i, r) => pc'[i] = "idle"
  BY DEF TypeOK, Answer
<1>1. CASE \/ LookupHit(i) \/ PrevCross(i) \/ NextCross(i) \/ SaveNewFails(i)
           \/ Done(i)
  BY <1>1, <1>b, Stages
     DEF LookupHit, PrevCross, NextCross, SaveNewFails, Done, Advances
<1>2. CASE LookupMiss(i) \/ PrevEnd(i) \/ LookupParent(i) \/ NextEnd(i) \/ SaveNew(i)
  BY <1>2, <1>a, Stages
     DEF LookupMiss, PrevEnd, LookupParent, NextEnd, SaveNew, Advances
<1>3. CASE PrevDisjoint(i)
  BY <1>3, <1>a, Stages DEF PrevDisjoint, Advances
<1>4. CASE PrevParent(i) \/ PrevChild(i)
  <2>1. pc[i] = "prev" /\ \E p : IsPrev(p, cursor[i]) /\ Goto(i, "prev", p)
    BY <1>4 DEF PrevParent, PrevChild
  <2> QED
    BY <2>1, <1>a DEF IsPrev, Below, Advances
<1>5. CASE NextParent(i) \/ NextChild(i)
  <2>1. pc[i] = "next" /\ \E n : IsNext(n, cursor[i]) /\ Goto(i, "next", n)
    BY <1>5 DEF NextParent, NextChild
  <2> QED
    BY <2>1, <1>a DEF IsNext, Above, Advances
<1>6. CASE SaveChild(i)
  <2>1. /\ pc[i] = "children" /\ UNCHANGED pc
        /\ listUpdate[i] # <<>> /\ listUpdate'[i] = Tail(listUpdate[i])
    BY <1>6 DEF SaveChild, TypeOK
  <2>2. listUpdate[i] \in Seq(TacInfo)
    BY DEF TypeOK
  <2>3. Len(listUpdate'[i]) < Len(listUpdate[i])
    BY <2>1, <2>2
  <2> QED
    BY <2>1, <2>3 DEF Advances
<1> QED
  BY <1>1, <1>2, <1>3, <1>4, <1>5, <1>6 DEF InsertTac

\* The steps of one inserter leave the place of every other alone.
LEMMA OthersStay ==
    ASSUME TypeOK, NEW j \in Inserter, NEW i \in Inserter, i # j,
           \/ \E r \in Request : Submit(j, r)
           \/ SubmitInverted(j)
           \/ InsertTac(j)
    PROVE  Stays(i)
<1>a. ASSUME NEW call, NEW key, Goto(j, call, key)
      PROVE  pc'[i] = pc[i] /\ cursor'[i] = cursor[i]
  BY <1>a DEF TypeOK, Goto
<1>b. ASSUME NEW r, Answer(j, r)
      PROVE  Stays(i)
  BY <1>b DEF TypeOK, Answer, Stays
<1>1. CASE \E r \in Request : Submit(j, r)
  BY <1>1, <1>a DEF Submit, Stays, TypeOK
<1>2. CASE \/ SubmitInverted(j) \/ LookupHit(j) \/ PrevCross(j) \/ NextCross(j)
           \/ SaveNewFails(j) \/ Done(j)
  BY <1>2, <1>b
     DEF SubmitInverted, LookupHit, PrevCross, NextCross, SaveNewFails, Done
<1>3. CASE LookupMiss(j) \/ PrevEnd(j) \/ NextEnd(j) \/ SaveNew(j)
  BY <1>3, <1>a DEF LookupMiss, PrevEnd, NextEnd, SaveNew, Stays
<1>4. CASE PrevDisjoint(j)
  BY <1>4, <1>a DEF PrevDisjoint, Stays
<1>5. CASE PrevParent(j) \/ NextParent(j) \/ LookupParent(j)
  <2>1. UNCHANGED <<req, listUpdate>> /\ \E call, key : Goto(j, call, key)
    BY <1>5 DEF PrevParent, NextParent, LookupParent
  <2>2. bestParent'[i] = bestParent[i]
    BY <1>5 DEF PrevParent, NextParent, LookupParent, TypeOK
  <2> QED
    BY <2>1, <2>2, <1>a DEF Stays
<1>6. CASE PrevChild(j) \/ NextChild(j)
  <2>1. UNCHANGED <<req, bestParent>> /\ \E call, key : Goto(j, call, key)
    BY <1>6 DEF PrevChild, NextChild
  <2>2. listUpdate'[i] = listUpdate[i]
    BY <1>6 DEF PrevChild, NextChild, TypeOK
  <2> QED
    BY <2>1, <2>2, <1>a DEF Stays
<1>7. CASE SaveChild(j)
  BY <1>7 DEF SaveChild, Stays, TypeOK
<1> QED
  BY <1>1, <1>2, <1>3, <1>4, <1>5, <1>6, <1>7 DEF InsertTac

LEMMA StepGoesOn == TypeOK /\ [Next]_vars => GoesOn
<1> SUFFICES ASSUME TypeOK, [Next]_vars, NEW i \in Inserter
             PROVE  /\ InsertTac(i) => Advances(i)
                    /\ pc[i] # "idle" => Advances(i) \/ Stays(i)
  BY DEF GoesOn
<1>1. InsertTac(i) => Advances(i)
  BY InsertAdvances
<1>2. ASSUME pc[i] # "idle"
      PROVE  InsertTac(i) \/ Stays(i)
  <2>1. ~SubmitInverted(i) /\ \A r \in Request : ~Submit(i, r)
    BY <1>2 DEF Submit, SubmitInverted
  <2>2. CASE UNCHANGED vars
    BY <2>2 DEF vars, Stays
  <2> QED
    BY <2>1, <2>2, OthersStay DEF Next
<1> QED
  BY <1>1, <1>2

\* Every call of an inserter takes it on: to a later call, to a range farther
\* along its walk, or to the next copy; and whatever the others insert
\* meanwhile, they never send it back.
THEOREM WalksGoOn == Spec => [][GoesOn]_vars
<1>1. TypeOK /\ ReqOK /\ [Next]_vars => (TypeOK /\ ReqOK)'
  BY NextType
<1> QED
  BY <1>1, InitType, StepGoesOn, PTL DEF Spec

=============================================================================
