------------------------ MODULE EquipmentCacheProofs ------------------------
(***************************************************************************)
(* Proofs about the EIR service: about EquipmentCache, for every number of *)
(* getters, removers, versions and fills under way, and about the checks   *)
(* and provisioning of EquipmentService, for every set of IMEIs and ranges *)
(* and every number of requests.                                           *)
(***************************************************************************)
EXTENDS EquipmentCache, EquipmentService, TLAPS

LEMMA InitType == Init => TypeOK
<1> SUFFICES ASSUME Init PROVE TypeOK
  OBVIOUS
<1>1. fills \in [Version -> 0..MaxFills]
  BY BoundAssumption DEF Init
<1>2. /\ row \in Version \cup {None}
      /\ cache \in [equipment : Version, ttl : {TTL}] \cup {NoEntry}
      /\ getting \in [Getter -> {"idle", "cache", "read"}]
      /\ served \in [Getter -> Version \cup {None}]
      /\ removing \in [Remover -> {"idle", "delete", "invalidate"}]
  BY DEF Init
<1>3. gone \in BOOLEAN /\ afterwards \subseteq Getter /\ excused \in BOOLEAN
  BY DEF Init
<1> QED
  BY <1>1, <1>2, <1>3 DEF TypeOK

LEMMA NextType == TypeOK /\ [Next]_vars => TypeOK'
<1> SUFFICES ASSUME TypeOK, [Next]_vars PROVE TypeOK'
  OBVIOUS
<1> USE DEF TypeOK
<1>1. ASSUME NEW v \in Version, Write(v) PROVE TypeOK'
  BY <1>1 DEF Write
<1>2. ASSUME NEW v \in Version, Fill(v) PROVE TypeOK'
  <2>1. fills' \in [Version -> 0..MaxFills]
    BY <1>2, BoundAssumption DEF Fill
  <2> QED
    BY <1>2, <2>1 DEF Fill
<1>3. CASE Expire
  BY <1>3 DEF Expire
<1>4. ASSUME NEW g \in Getter,
             Get(g) \/ CacheHit(g) \/ CacheMiss(g) \/ ReadNothing(g)
      PROVE  TypeOK'
  BY <1>4 DEF Get, CacheHit, CacheMiss, ReadNothing, NoEntry
<1>5. ASSUME NEW g \in Getter, ReadRow(g) PROVE TypeOK'
  <2>1. fills' \in [Version -> 0..MaxFills]
    BY <1>5, BoundAssumption DEF ReadRow
  <2> QED
    BY <1>5, <2>1 DEF ReadRow
<1>6. ASSUME NEW r \in Remover,
             Remove(r) \/ DeleteFails(r) \/ DeleteRow(r) \/ Invalidate(r)
      PROVE  TypeOK'
  BY <1>6 DEF Remove, DeleteFails, DeleteRow, Invalidate
<1>7. CASE UNCHANGED vars
  BY <1>7 DEF vars
<1> QED
  BY <1>1, <1>2, <1>3, <1>4, <1>5, <1>6, <1>7 DEF Next, Create, Update

\* The variables keep their types; so the number of fills under way stays in
\* its bounds, and an entry always has the time to live the service gives it.
THEOREM TypeCorrect == Spec => []TypeOK
BY InitType, NextType, PTL DEF Spec

-----------------------------------------------------------------------------

LEMMA InitStale == Init => StaleInv
BY InitType DEF Init, StaleInv, StaleOnlyIfExcused

LEMMA NextStale == StaleInv /\ [Next]_vars => StaleInv'
<1> SUFFICES ASSUME StaleInv, [Next]_vars PROVE StaleInv'
  OBVIOUS
<1>t. TypeOK /\ TypeOK'
  BY NextType DEF StaleInv
<1> USE DEF StaleInv, StaleOnlyIfExcused
<1>1. ASSUME NEW v \in Version, Write(v) PROVE StaleInv'
  BY <1>1, <1>t, NoneAssumption DEF Write
<1>2. ASSUME NEW v \in Version, Fill(v) PROVE StaleInv'
  \* A fill under way means the row is there, or a stale entry is excused.
  <2>1. fills[v] > 0 /\ fills[v] # 0
    BY <1>2, <1>t DEF Fill, TypeOK
  <2>2. row # None \/ excused
    BY <2>1
  <2> QED
    BY <1>2, <1>t, <2>2 DEF Fill
<1>3. CASE Expire
  BY <1>3, <1>t DEF Expire
<1>4. ASSUME NEW g \in Getter, Get(g) PROVE StaleInv'
  \* It joins the getters that start afterwards with nothing served yet.
  <2>1. \A h \in afterwards' : served'[h] # None => excused
    BY <1>4, <1>t DEF Get, TypeOK
  <2>2. afterwards' # {} => gone
    BY <1>4 DEF Get
  <2> QED
    BY <1>4, <1>t, <2>1, <2>2 DEF Get
<1>5. ASSUME NEW g \in Getter, CacheHit(g) PROVE StaleInv'
  \* What it serves is in the cache.
  <2>1. cache # NoEntry
    BY <1>5 DEF CacheHit, NoEntry
  <2>2. \A h \in afterwards : served'[h] # None => excused
    BY <1>5, <1>t, <2>1 DEF CacheHit, TypeOK
  <2> QED
    BY <1>5, <1>t, <2>2 DEF CacheHit
<1>6. ASSUME NEW g \in Getter, CacheMiss(g) \/ ReadNothing(g)
       PROVE  StaleInv'
  BY <1>6, <1>t DEF CacheMiss, ReadNothing
<1>7. ASSUME NEW g \in Getter, ReadRow(g) PROVE StaleInv'
  <2>1. ~gone /\ afterwards = {}
    BY <1>7 DEF ReadRow
  <2> QED
    BY <1>7, <1>t, <2>1 DEF ReadRow
<1>8. ASSUME NEW r \in Remover, Remove(r) \/ DeleteFails(r)
      PROVE  StaleInv'
  BY <1>8, <1>t DEF Remove, DeleteFails
<1>9. ASSUME NEW r \in Remover, DeleteRow(r) PROVE StaleInv'
  <2>1. ~excused' => \A v \in Version : fills'[v] = 0
    BY <1>9, <1>t DEF DeleteRow, TypeOK
  <2>2. ~gone' /\ afterwards' = {}
    BY <1>9 DEF DeleteRow
  <2>3. row' = None
    BY <1>9 DEF DeleteRow
  <2> QED
    BY <1>t, <2>1, <2>2, <2>3
<1>10. ASSUME NEW r \in Remover, Invalidate(r) PROVE StaleInv'
  BY <1>10, <1>t DEF Invalidate
<1>11. CASE UNCHANGED vars
  BY <1>11, <1>t DEF vars
<1> QED
  BY <1>1, <1>2, <1>3, <1>4, <1>5, <1>6, <1>7, <1>8, <1>9, <1>10, <1>11
  DEF Next, Create, Update

\* Removed equipment is in the cache after the removal was answered only when
\* a fill was under way as its row was deleted or an invalidation failed.
THEOREM StaleExcused == Spec => []StaleOnlyIfExcused
<1>1. StaleInv => StaleOnlyIfExcused
  BY DEF StaleInv
<1> QED
  BY <1>1, InitStale, NextStale, PTL DEF Spec

-----------------------------------------------------------------------------
(***************************************************************************)
(* The checks and the provisioning of the same service: EquipmentService,  *)
(* which shares no state with the cache.  Its answers agree because each   *)
(* is determined by the equipment and the kind of the check.               *)
(***************************************************************************)
\* The rows of the compiled table an IMEI cut to 14 digits finds.
RowsOf(m) == {r \in ImeiSampleData : r.start = m.start}

\* The answers to check-imei of an IMEI that is cut.
SampleAnswers(m, outcome) ==
    IF RowsOf(m) = {} THEN outcome = "WHITELISTED"
    ELSE \E r \in RowsOf(m) : outcome = HTTPStatus(r.Color)

\* The answer of a check is that of its interface to its equipment.
Determined(a) ==
    /\ a.check \in {"pei", "tac"} => a.outcome = HTTPOutcome(a.imei)
    /\ a.check = "s13" =>
          a.outcome = IF a.imei.error = ""
                      THEN S13Status(CheckTac(a.imei)) ELSE "5012"
    /\ a.check = "imei" /\ a.length # 0 => SampleAnswers(a.imei, a.outcome)

AnswerInv == \A a \in answers : Determined(a)

\* At most one row, whatever the IMEI: the keys of the table differ.
LEMMA OneRow == ASSUME NEW m, NEW r \in RowsOf(m), NEW s \in RowsOf(m)
                PROVE  r = s
BY DEF RowsOf, ImeiSampleData

\* The two conversions of colours agree on what CheckTac can answer.
LEMMA InterfacesAgree ==
    ASSUME NEW m
    PROVE  /\ HTTPStatus(CheckTac(m)) = S13Status(CheckTac(m))
           /\ m.error # "" => HTTPOutcome(m) \in {"400", "500"}
BY DEF HTTPStatus, S13Status, CheckTac, HTTPOutcome

LEMMA DeterminedAgree == AnswerInv => AnswersAgree
<1> SUFFICES ASSUME AnswerInv,
                    NEW a \in answers, NEW b \in answers, a.imei = b.imei,
                    \/ {a.check, b.check} \subseteq {"pei", "tac", "s13"}
                    \/ a.check = "imei" /\ b.check = "imei"
                       /\ a.length # 0 /\ b.length # 0
             PROVE  a.outcome = b.outcome
                    \/ {a.outcome, b.outcome} \subseteq Refused
  BY DEF AnswersAgree
<1>1. Determined(a) /\ Determined(b)
  BY DEF AnswerInv
<1> DEFINE m == a.imei
<1>2. CASE {a.check, b.check} \subseteq {"pei", "tac", "s13"}
  <2>1. CASE m.error = ""
    BY <1>1, <1>2, <2>1, InterfacesAgree DEF Determined, HTTPOutcome
  <2>2. CASE m.error # ""
    <3>1. HTTPOutcome(m) \in {"400", "500"}
      BY <2>2, InterfacesAgree
    <3> QED
      BY <1>1, <1>2, <2>2, <3>1 DEF Determined, Refused
  <2> QED
    BY <2>1, <2>2
<1>3. CASE a.check = "imei" /\ b.check = "imei" /\ a.length # 0 /\ b.length # 0
  <2>1. SampleAnswers(m, a.outcome) /\ SampleAnswers(m, b.outcome)
    BY <1>1, <1>3 DEF Determined
  <2>2. \A r, s \in RowsOf(m) : r = s
    BY OneRow
  <2> QED
    BY <2>1, <2>2 DEF SampleAnswers
<1> QED
  BY <1>2, <1>3

\* What a request leaves of the answers: all, with at most its own.
LEMMA AnswerAdded ==
    ASSUME AnswerInv, NEW a, Determined(a),
           answers' = answers \cup {a}
    PROVE  AnswerInv'
BY DEF AnswerInv

\* The rows CheckImei searches for a cut IMEI, and what it answers.
LEMMA CheckImeiDetermined ==
    ASSUME NEW m, imeiCheckLength # 0, NEW color \in CheckImei(m)
    PROVE  SampleAnswers(m, HTTPStatus(color))
<1>1. Prefixed(m) = RowsOf(m)
  BY DEF Prefixed, RowsOf
<1>2. CASE RowsOf(m) = {}
  <2>1. color = "unkown"
    BY <1>1, <1>2 DEF CheckImei
  <2>2. HTTPStatus(color) = "WHITELISTED"
    BY <2>1 DEF HTTPStatus
  <2> QED
    BY <1>2, <2>2 DEF SampleAnswers
<1>3. CASE RowsOf(m) # {}
  <2>1. PICK r \in RowsOf(m) : TRUE
    BY <1>3
  <2>2. RowsOf(m) = {r}
    BY <2>1, OneRow
  <2>3. r.length \in {14, 15}
    BY <2>1 DEF RowsOf, ImeiSampleData
  <2>4. color = r.Color
    <3>1. r.length <= r.length
      BY <2>3
    <3>2. {s \in RowsOf(m) : \A other \in RowsOf(m) : other.length <= s.length}
            = {r}
      BY <2>2, <3>1
    <3>3. CheckImei(m) = {r.Color}
      BY <1>1, <3>2 DEF CheckImei
    <3> QED
      BY <3>3
  <2> QED
    BY <1>3, <2>1, <2>4 DEF SampleAnswers
<1> QED
  BY <1>2, <1>3

LEMMA NextAnswer == AnswerInv /\ [ServiceNext]_serviceVars => AnswerInv'
<1> SUFFICES ASSUME AnswerInv, [ServiceNext]_serviceVars PROVE AnswerInv'
  OBVIOUS
<1>1. ASSUME answers' = answers PROVE AnswerInv'
  BY <1>1 DEF AnswerInv
<1>2. ASSUME NEW m \in Imei, NEW color \in ImeiColor,
             PostInsertImei(m, color)
      PROVE  AnswerInv'
  BY <1>1, <1>2 DEF PostInsertImei, InsertImei
<1>3. ASSUME NEW m \in Imei, NEW status \in EquipmentStatus,
             ProvisionEquipment(m, status)
      PROVE  AnswerInv'
  BY <1>1, <1>3 DEF ProvisionEquipment, InsertImei
<1>4. ASSUME NEW k, NEW color, PostInsertTac(k, color)
      PROVE  AnswerInv'
  BY <1>1, <1>4 DEF PostInsertTac
<1>5. ASSUME NEW m \in Imei, GetCheckImei(m)
      PROVE  AnswerInv'
  <2>1. PICK color \in CheckImei(m) :
           Answer(m, "imei", HTTPStatus(color), ImeiColors(m))
    BY <1>5 DEF GetCheckImei
  <2> DEFINE a == [imei |-> m, check |-> "imei",
                   outcome |-> HTTPStatus(color),
                   length |-> imeiCheckLength, colors |-> ImeiColors(m)]
  <2>2. Determined(a)
    BY CheckImeiDetermined DEF Determined
  <2>3. answers' = answers \cup {a}
    BY <2>1 DEF Answer
  <2> QED
    BY <2>2, <2>3, AnswerAdded
<1>6. ASSUME NEW m \in Imei,
             GetEquipmentStatus(m) \/ GetCheckTac(m)
      PROVE  AnswerInv'
  <2>1. PICK check \in {"pei", "tac"} :
           Answer(m, check, HTTPOutcome(m), TacColors(m))
    BY <1>6 DEF GetEquipmentStatus, GetCheckTac
  <2> DEFINE a == [imei |-> m, check |-> check,
                   outcome |-> HTTPOutcome(m),
                   length |-> imeiCheckLength, colors |-> TacColors(m)]
  <2>2. Determined(a)
    BY DEF Determined
  <2>3. answers' = answers \cup {a}
    BY <2>1 DEF Answer
  <2> QED
    BY <2>2, <2>3, AnswerAdded
<1>7. ASSUME NEW m \in Imei, MEIdentityCheck(m)
      PROVE  AnswerInv'
  <2> DEFINE a == [imei |-> m, check |-> "s13",
                   outcome |-> IF m.error = ""
                               THEN S13Status(CheckTac(m))
                               ELSE "5012",
                   length |-> imeiCheckLength, colors |-> TacColors(m)]
  <2>1. Determined(a)
    BY DEF Determined
  <2>2. answers' = answers \cup {a}
    BY <1>7 DEF MEIdentityCheck, Answer
  <2> QED
    BY <2>1, <2>2, AnswerAdded
<1>8. CASE UNCHANGED serviceVars
  BY <1>1, <1>8 DEF serviceVars
<1> QED
  BY <1>2, <1>3, <1>4, <1>5, <1>6, <1>7, <1>8 DEF ServiceNext

\* One equipment gets one answer, by CheckTac whatever the interface and the
\* time, by CheckImei once an IMEI was inserted: for any IMEIs, ranges and
\* number of requests, and any provisioning in between.
THEOREM ChecksAgree == ServiceSpec => []AnswersAgree
<1>1. ServiceInit => AnswerInv
  BY DEF ServiceInit, AnswerInv
<1> QED
  BY <1>1, NextAnswer, DeterminedAgree, PTL DEF ServiceSpec

-----------------------------------------------------------------------------
(* The types of the service's tables and answers. *)

LEMMA StatusTypes ==
    /\ \A color : HTTPStatus(color) \in EquipmentStatus
    /\ \A color : S13Status(color) \in EquipmentStatus
    /\ \A status : ColorOf(status) \in ImeiColor
BY DEF HTTPStatus, S13Status, ColorOf, EquipmentStatus, ImeiColor

LEMMA HTTPOutcomeType ==
    ASSUME NEW m
    PROVE  HTTPOutcome(m) \in EquipmentStatus \cup Refused
<1>1. HTTPStatus(CheckTac(m)) \in EquipmentStatus
  BY StatusTypes
<1> QED
  BY <1>1 DEF HTTPOutcome, Refused

\* A registered IMEI has a colour of the three, and ends of known IMEIs.
LEMMA RegisterType ==
    ASSUME ServiceTypeOK, NEW m \in Imei, NEW color \in ImeiColor,
           Imeis!Register(m.start, m.end, color)
    PROVE  /\ DOMAIN imeiTable' \subseteq {x.start : x \in Imei}
           /\ imeiTable' \in [DOMAIN imeiTable' -> Imeis!Entry]
<1> DEFINE Known == {x.end : x \in Imei} \cup {Blank}
<1>1. Imeis!Entry = [Color : ImeiColor, Ends : SUBSET Known]
  BY DEF Imeis!Entry
<1>2. m.end \in Known /\ m.start \in {x.start : x \in Imei}
  OBVIOUS
<1> HIDE DEF Known
<1>3. PICK entry \in Imeis!Entry : imeiTable' = Imeis!Entered(m.start, entry)
  <2>1. CASE m.start \notin DOMAIN imeiTable
    <3>1. [Color |-> color, Ends |-> {m.end}] \in Imeis!Entry
      BY <1>1, <1>2
    <3> QED
      BY <2>1, <3>1 DEF Imeis!Register
  <2>2. CASE m.start \in DOMAIN imeiTable
    <3> DEFINE ends == (imeiTable[m.start].Ends \cup {m.end})
                          \ (IF imeiTable[m.start].Ends = {Blank}
                             THEN {Blank} ELSE {})
    <3>1. imeiTable[m.start] \in Imeis!Entry
      BY <2>2 DEF ServiceTypeOK
    <3>2. imeiTable[m.start].Ends \in SUBSET Known
      BY <1>1, <3>1
    <3>3. ends \in SUBSET Known
      BY <1>2, <3>2
    <3>4. imeiTable' = Imeis!Entered(m.start, [Color |-> color, Ends |-> ends])
      BY <2>2 DEF Imeis!Register
    <3> HIDE DEF ends
    <3>5. [Color |-> color, Ends |-> ends] \in Imeis!Entry
      BY <1>1, <3>3
    <3> QED
      BY <3>4, <3>5
  <2> QED
    BY <2>1, <2>2
<1>4. /\ DOMAIN imeiTable \subseteq {x.start : x \in Imei}
      /\ imeiTable \in [DOMAIN imeiTable -> Imeis!Entry]
  BY DEF ServiceTypeOK
<1> QED
  BY <1>2, <1>3, <1>4 DEF Imeis!Entered

LEMMA ServiceInitType == ServiceInit => ServiceTypeOK
BY RequestAssumption DEF ServiceInit, ServiceTypeOK, Tacs!TypeOK

\* A check adds its answer, and leaves the tables alone.
LEMMA AnswerType ==
    ASSUME ServiceTypeOK, Request,
           NEW m \in Imei, NEW check, NEW colors,
           NEW outcome \in EquipmentStatus \cup Refused,
           Answer(m, check, outcome, colors),
           UNCHANGED <<imeiTable, tacTable, imeiCheckLength>>
    PROVE  ServiceTypeOK'
<1>1. requests' \in 0..MaxRequests
  BY RequestAssumption DEF ServiceTypeOK, Request
<1>2. \A a \in answers' :
         a.imei \in Imei /\ a.outcome \in EquipmentStatus \cup Refused
  BY DEF ServiceTypeOK, Answer
<1> QED
  BY <1>1, <1>2 DEF ServiceTypeOK, Tacs!TypeOK

LEMMA InsertImeiType ==
    ASSUME ServiceTypeOK, NEW m \in Imei,
           NEW color \in ImeiColor, InsertImei(m, color)
    PROVE  ServiceTypeOK'
<1>1. requests' \in 0..MaxRequests
  BY RequestAssumption DEF ServiceTypeOK, Request, InsertImei
<1>2. /\ DOMAIN imeiTable' \subseteq {x.start : x \in Imei}
      /\ imeiTable' \in [DOMAIN imeiTable' -> Imeis!Entry]
  <2>1. CASE Imeis!Register(m.start, m.end, color)
    BY <2>1, RegisterType
  <2>2. CASE imeiTable' = imeiTable
    BY <2>2 DEF ServiceTypeOK
  <2> QED
    BY <2>1, <2>2 DEF InsertImei
<1>3. imeiCheckLength' \in {0, 14} /\ UNCHANGED <<tacTable, answers>>
  BY DEF InsertImei
<1> QED
  BY <1>1, <1>2, <1>3 DEF ServiceTypeOK, Tacs!TypeOK

LEMMA InsertTacType ==
    ASSUME ServiceTypeOK, NEW k \in Key,
           NEW color \in TacColor, PostInsertTac(k, color)
    PROVE  ServiceTypeOK'
<1>1. requests' \in 0..MaxRequests
  BY RequestAssumption DEF ServiceTypeOK, Request, PostInsertTac
<1>2. Tacs!TypeOK'
  <2>1. CASE Tacs!Register(k, color)
    <3>1. k \in Tacs!Key
      BY DEF Key, Tacs!Key
    <3>2. DOMAIN tacTable \subseteq Tacs!Key
          /\ tacTable \in [DOMAIN tacTable -> TacColor]
      BY DEF ServiceTypeOK, Tacs!TypeOK
    <3> QED
      BY <2>1, <3>1, <3>2 DEF Tacs!TypeOK, Tacs!Register
  <2>2. CASE tacTable' = tacTable
    BY <2>2 DEF ServiceTypeOK, Tacs!TypeOK
  <2> QED
    BY <2>1, <2>2 DEF PostInsertTac
<1> QED
  BY <1>1, <1>2 DEF ServiceTypeOK, PostInsertTac

LEMMA ServiceNextType ==
    ASSUME ServiceTypeOK, [ServiceNext]_serviceVars
    PROVE  ServiceTypeOK'
<1>1. ASSUME NEW m \in Imei, NEW color \in ImeiColor,
             PostInsertImei(m, color)
      PROVE  ServiceTypeOK'
  BY <1>1, InsertImeiType DEF PostInsertImei
<1>2. ASSUME NEW m \in Imei, NEW status \in EquipmentStatus,
             ProvisionEquipment(m, status)
      PROVE  ServiceTypeOK'
  BY <1>2, StatusTypes, InsertImeiType DEF ProvisionEquipment
<1>3. ASSUME NEW k \in Key, NEW color \in TacColor,
             PostInsertTac(k, color)
      PROVE  ServiceTypeOK'
  BY <1>3, InsertTacType
<1>4. ASSUME NEW m \in Imei, GetCheckImei(m)
      PROVE  ServiceTypeOK'
  <2>1. PICK color \in CheckImei(m) :
           Answer(m, "imei", HTTPStatus(color), ImeiColors(m))
    BY <1>4 DEF GetCheckImei
  <2>2. HTTPStatus(color) \in EquipmentStatus
    BY StatusTypes
  <2> QED
    BY <1>4, <2>1, <2>2, AnswerType DEF GetCheckImei
<1>5. ASSUME NEW m \in Imei,
             GetEquipmentStatus(m) \/ GetCheckTac(m)
      PROVE  ServiceTypeOK'
  BY <1>5, HTTPOutcomeType, AnswerType
  DEF GetEquipmentStatus, GetCheckTac
<1>6. ASSUME NEW m \in Imei, MEIdentityCheck(m)
      PROVE  ServiceTypeOK'
  <2> DEFINE outcome == IF m.error = ""
                        THEN S13Status(CheckTac(m)) ELSE "5012"
  <2>1. outcome \in EquipmentStatus \cup Refused
    BY StatusTypes DEF Refused
  <2> QED
    BY <1>6, <2>1, AnswerType DEF MEIdentityCheck
<1>7. CASE UNCHANGED serviceVars
  BY <1>7 DEF serviceVars, ServiceTypeOK, Tacs!TypeOK
<1> QED
  BY <1>1, <1>2, <1>3, <1>4, <1>5, <1>6, <1>7 DEF ServiceNext

\* The tables hold known IMEIs and ranges in known colours, and every answer is
\* a status or a refusal: no check passes an unknown colour on.
THEOREM ServiceTypeCorrect == ServiceSpec => []ServiceTypeOK
<1>1. ServiceTypeOK /\ [ServiceNext]_serviceVars => ServiceTypeOK'
  BY ServiceNextType
<1> QED
  BY <1>1, ServiceInitType, PTL DEF ServiceSpec

=============================================================================
