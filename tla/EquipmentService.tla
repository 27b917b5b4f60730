-------------------------- MODULE EquipmentService --------------------------
(***************************************************************************)
(* The EIR as its clients see it: provisioning over HTTP, and equipment    *)
(* checks over HTTP (N5g-eir and management API) and Diameter S13.         *)
(*                                                                         *)
(* Provisioning is taken at the level of the registries that TacTable and  *)
(* ImeiTable implement.  The checks read neither: CheckImei and CheckTac   *)
(* search the tables compiled into utils/utils.go, and CheckImei cuts the  *)
(* IMEI at imeiCheckLength, a package variable that is 0 until the first   *)
(* InsertImei sets it.                                                     *)
(*                                                                         *)
(* What both modules about the service have is named apart from the names  *)
(* in EquipmentCache, so that one module can extend both.                  *)
(***************************************************************************)
EXTENDS TacRange

CONSTANTS
    Imei,          \* the IMEIs provisioned and asked about
    SampleRange,   \* the bounds of the one range of TacSampleData
    MaxRequests    \* bound: requests in a behaviour

ImeiColor == {"b", "g", "w"}
TacColor == {"black", "grey", "white"}
EquipmentStatus == {"BLACKLISTED", "GREYLISTED", "WHITELISTED"}

\* What follows the checked digits when nothing does.
Blank == " "

\* An IMEI: its first 14 digits, the others, its place among range bounds, and
\* what ValidateIMEI says of it.
ASSUME ImeiAssumption ==
    Imei \subseteq [start : STRING, end : STRING, tac : Pos, error : STRING]
ASSUME SampleAssumption == SampleRange \in Key
ASSUME RequestAssumption == MaxRequests \in Nat

VARIABLES
    imeiTable,        \* provisioned start -> colour and ends
    tacTable,         \* provisioned range -> colour
    imeiCheckLength,  \* 0, then 14
    answers,          \* every answer to a check so far
    requests          \* number of requests so far

serviceVars == <<imeiTable, tacTable, imeiCheckLength, answers, requests>>

Imeis == INSTANCE ImeiRegistry
    WITH registry <- imeiTable, Start <- {m.start : m \in Imei},
         End <- {m.end : m \in Imei} \cup {Blank}, Color <- ImeiColor

Tacs == INSTANCE TacRegistry WITH registry <- tacTable, Color <- TacColor

ServiceInit ==
    /\ imeiTable = [s \in {} |-> s]
    /\ tacTable = [k \in {} |-> k]
    /\ imeiCheckLength = 0
    /\ answers = {}
    /\ requests = 0

Request == requests < MaxRequests /\ requests' = requests + 1

-----------------------------------------------------------------------------
(* The tables compiled in, and their search *)

\* The rows of ImeiSampleData: key, length of the padded key, colour.
ImeiSampleData == {
    [start |-> "9",              length |-> 15, Color |-> "b"],
    [start |-> "91",             length |-> 15, Color |-> "w"],
    [start |-> "912",            length |-> 15, Color |-> "g"],
    [start |-> "9123",           length |-> 15, Color |-> "w"],
    [start |-> "9123456789012",  length |-> 14, Color |-> "b"],
    [start |-> "91234567895264", length |-> 14, Color |-> "w"]}

\* Rows whose padded key has the cut IMEI as a prefix: all, if it is cut to "".
Prefixed(m) == IF imeiCheckLength = 0 THEN ImeiSampleData
               ELSE {row \in ImeiSampleData : row.start = m.start}

\* lookupImeiInfo keeps the first of the longest rows it meets, and ranges over
\* a map: any of them.
CheckImei(m) ==
    LET longest == {row \in Prefixed(m) :
                       \A other \in Prefixed(m) : other.length <= row.length}
    IN  IF longest = {} THEN {"unkown"} ELSE {row.Color : row \in longest}

\* TacSampleData has one range and no link to follow.
CheckTac(m) ==
    IF StartOf(SampleRange) <= m.tac /\ m.tac <= EndOf(SampleRange)
    THEN "grey" ELSE "unknown"

-----------------------------------------------------------------------------
(* Colours and equipment statuses *)

\* Seeded fault: a colour that is not known is passed on.
HTTPStatusUnmapped(color) ==
    CASE color \in {"black", "b"} -> "BLACKLISTED"
      [] color \in {"grey", "g"} -> "GREYLISTED"
      [] color \in {"white", "w"} -> "WHITELISTED"
      [] OTHER -> color

\* convertColorToEquipmentStatus of the HTTP and of the Diameter adapter.
HTTPStatus(color) ==
    CASE color \in {"black", "b"} -> "BLACKLISTED"
      [] color \in {"grey", "g"} -> "GREYLISTED"
      [] OTHER -> "WHITELISTED"

\* Seeded fault: the Diameter adapter knows the one-letter codes only.
S13StatusOfCode(color) ==
    CASE color = "b" -> "BLACKLISTED"
      [] color = "g" -> "GREYLISTED"
      [] OTHER -> "WHITELISTED"

S13Status(color) ==
    CASE color = "black" -> "BLACKLISTED"
      [] color = "grey" -> "GREYLISTED"
      [] OTHER -> "WHITELISTED"

\* convertEquipmentStatusToColor.
ColorOf(status) ==
    CASE status = "BLACKLISTED" -> "b"
      [] status = "GREYLISTED" -> "g"
      [] OTHER -> "w"

-----------------------------------------------------------------------------
(* Provisioning *)

\* InsertImei sets the check length first, then registers the IMEI or refuses.
InsertImei(m, color) ==
    /\ Request
    /\ imeiCheckLength' = 14
    /\ \/ Imeis!Register(m.start, m.end, color)
       \/ /\ m.start \in DOMAIN imeiTable
          /\ \/ imeiTable[m.start].Color # color
             \/ m.end \in imeiTable[m.start].Ends
          /\ UNCHANGED imeiTable
    /\ UNCHANGED <<tacTable, answers>>

\* POST /insert-imei names a colour, POST /equipment a status.
PostInsertImei(m, color) == InsertImei(m, color)
ProvisionEquipment(m, status) == InsertImei(m, ColorOf(status))

\* POST /insert-tac: registered, or refused for a range equal or crossing.
PostInsertTac(k, color) ==
    /\ Request
    /\ \/ Tacs!Register(k, color)
       \/ /\ \E x \in DOMAIN tacTable : x = k \/ Crosses(x, k)
          /\ UNCHANGED tacTable
    /\ UNCHANGED <<imeiTable, imeiCheckLength, answers>>

-----------------------------------------------------------------------------
(* Checks *)

\* Colours the IMEI was provisioned with, and those of the innermost ranges
\* provisioned around it.
ImeiColors(m) ==
    IF m.start \in DOMAIN imeiTable /\ m.end \in imeiTable[m.start].Ends
    THEN {imeiTable[m.start].Color} ELSE {}

TacColors(m) ==
    LET around == {k \in DOMAIN tacTable :
                      StartOf(k) <= m.tac /\ m.tac <= EndOf(k)}
    IN  {tacTable[k] : k \in {k \in around : \A x \in around : Encloses(x, k)}}

\* An answer, with what was provisioned when it was given.
Answer(m, check, outcome, colors) ==
    answers' = answers \cup {[imei |-> m, check |-> check, outcome |-> outcome,
                              length |-> imeiCheckLength, colors |-> colors]}

\* GET /check-imei
GetCheckImei(m) ==
    /\ Request
    /\ \E color \in CheckImei(m) :
          Answer(m, "imei", HTTPStatus(color), ImeiColors(m))
    /\ UNCHANGED <<imeiTable, tacTable, imeiCheckLength>>

\* CheckTac's answer over HTTP: only ErrInvalidIMEI, which ValidateIMEI keeps for
\* the empty IMEI, is answered with 400.
HTTPOutcome(m) ==
    CASE m.error = "" -> HTTPStatus(CheckTac(m))
      [] m.error = "ErrInvalidIMEI" -> "400"
      [] OTHER -> "500"

\* GET /equipment-status
GetEquipmentStatus(m) ==
    /\ Request
    /\ Answer(m, "pei", HTTPOutcome(m), TacColors(m))
    /\ UNCHANGED <<imeiTable, tacTable, imeiCheckLength>>

\* GET /check-tac
GetCheckTac(m) ==
    /\ Request
    /\ Answer(m, "tac", HTTPOutcome(m), TacColors(m))
    /\ UNCHANGED <<imeiTable, tacTable, imeiCheckLength>>

\* ME-Identity-Check-Request
MEIdentityCheck(m) ==
    /\ Request
    /\ Answer(m, "s13",
              IF m.error = "" THEN S13Status(CheckTac(m)) ELSE "5012",
              TacColors(m))
    /\ UNCHANGED <<imeiTable, tacTable, imeiCheckLength>>

ServiceNext ==
    \/ \E m \in Imei :
          \/ \E color \in ImeiColor : PostInsertImei(m, color)
          \/ \E status \in EquipmentStatus : ProvisionEquipment(m, status)
          \/ GetCheckImei(m) \/ GetCheckTac(m)
          \/ GetEquipmentStatus(m) \/ MEIdentityCheck(m)
    \/ \E k \in Key, color \in TacColor : PostInsertTac(k, color)

ServiceSpec == ServiceInit /\ [][ServiceNext]_serviceVars

-----------------------------------------------------------------------------
(* Properties *)

Refused == {"400", "500", "5012"}

ServiceTypeOK ==
    /\ DOMAIN imeiTable \subseteq {m.start : m \in Imei}
    /\ imeiTable \in [DOMAIN imeiTable -> Imeis!Entry]
    /\ Tacs!TypeOK
    /\ imeiCheckLength \in {0, 14}
    /\ \A a \in answers : a.imei \in Imei
                          /\ a.outcome \in EquipmentStatus \cup Refused
    /\ requests \in 0..MaxRequests

\* One equipment gets one answer: by CheckTac whatever the interface, the time
\* and the provisioning in between; by CheckImei once an IMEI was inserted.
AnswersAgree ==
    \A a, b \in answers :
        /\ a.imei = b.imei
        /\ \/ {a.check, b.check} \subseteq {"pei", "tac", "s13"}
           \/ a.check = "imei" /\ b.check = "imei" /\ a.length # 0 /\ b.length # 0
        => a.outcome = b.outcome \/ {a.outcome, b.outcome} \subseteq Refused

\* Equipment on record is answered with the status it was provisioned with,
\* itself or by the innermost range around it.
ProvisionedAnswered ==
    \A a \in answers : a.outcome \notin Refused =>
        \A color \in a.colors : a.outcome = HTTPStatus(color)

=============================================================================
