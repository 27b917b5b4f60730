------------------------- MODULE AppLifecycleProofs -------------------------
(***************************************************************************)
(* Proofs about AppLifecycle, for any number of requests.                  *)
(***************************************************************************)
EXTENDS AppLifecycle, TLAPS

LEMMA InitType == Init => TypeOK
BY DEF Init, TypeOK

\* The end of the process, however it comes about.
LEMMA ExitType ==
    ASSUME TypeOK, NEW how \in {"fatal", "panic", "killed", "orderly"}, Exit(how)
    PROVE  TypeOK'
<1>1. requests' \in [Request -> {"none", "open", "answered", "cut"}]
  BY DEF TypeOK, Exit
<1> QED
  BY <1>1 DEF TypeOK, Exit

LEMMA NextType == TypeOK /\ [Next]_vars => TypeOK'
<1> SUFFICES ASSUME TypeOK, [Next]_vars PROVE TypeOK'
  OBVIOUS
<1>1. CASE StartHTTP
  <2>1. CASE Exit("fatal")
    BY <2>1, ExitType
  <2>2. CASE ~Exit("fatal")
    BY <1>1, <2>2 DEF TypeOK, StartHTTP
  <2> QED
    BY <2>1, <2>2
<1>2. CASE StartDiameter \/ SkipRegistration \/ Notify
  BY <1>2 DEF TypeOK, StartDiameter, SkipRegistration, Notify
<1>3. CASE Register
  BY <1>3 DEF TypeOK, Register
<1>4. CASE RegisterFatal
  <2>1. requests' \in [Request -> {"none", "open", "answered", "cut"}]
    BY <1>4 DEF TypeOK, RegisterFatal
  <2> QED
    BY <1>4, <2>1 DEF TypeOK, RegisterFatal
<1>5. CASE Wake \/ CloseHTTP
  BY <1>5 DEF TypeOK, Wake, CloseHTTP
<1>6. CASE Unregister
  BY <1>6 DEF TypeOK, Unregister
<1>7. CASE DrainHTTP
  <2>1. late' \in BOOLEAN
    BY <1>7 DEF DrainHTTP
  <2> QED
    BY <1>7, <2>1 DEF TypeOK, DrainHTTP
<1>8. CASE StopDiameter
  BY <1>8, ExitType DEF StopDiameter
<1>9. CASE DiameterListens
  <2>1. CASE Exit("panic")
    BY <2>1, ExitType
  <2>2. CASE ~Exit("panic")
    BY <1>9, <2>2 DEF TypeOK, DiameterListens
  <2> QED
    BY <2>1, <2>2
<1>10. CASE Signal
  <2>1. CASE Exit("killed")
    BY <2>1, ExitType
  <2>2. CASE ~Exit("killed")
    BY <1>10, <2>2 DEF TypeOK, Signal
  <2> QED
    BY <2>1, <2>2
<1>11. ASSUME NEW r \in Request, Accept(r) \/ Respond(r) PROVE TypeOK'
  BY <1>11 DEF TypeOK, Accept, Respond
<1>12. CASE UNCHANGED vars
  BY <1>12 DEF TypeOK, vars
<1> QED
  BY <1>1, <1>2, <1>3, <1>4, <1>5, <1>6, <1>7, <1>8, <1>9, <1>10, <1>11, <1>12
  DEF Next, Main

\* The variables of the process keep their types.
THEOREM TypeCorrect == Spec => []TypeOK
BY InitType, NextType, PTL DEF Spec

-----------------------------------------------------------------------------
(***************************************************************************)
(* Why a listed pod serves: main registers it between binding the port and *)
(* closing it, and on the way from Wake to CloseHTTP there is no path      *)
(* around Unregister.  Only a process with governance enabled is ever      *)
(* listed, so that Unregister returns without effect only when it fails.   *)
(***************************************************************************)

Alive == {"diameter", "register", "notify", "wait", "unregister", "close"}

ServingInv ==
    /\ exit = "no" <=> main # "ended"
    /\ main \in Alive => http = "listening"
    /\ registered => Enabled /\ main \notin {"http", "diameter"}
    /\ registered /\ main \in {"close", "drain", "stop"} => unregistered = "error"
    /\ registered /\ exit = "orderly" => unregistered = "error"

LEMMA InitServing == Init => ServingInv
BY DEF Init, ServingInv, Alive

LEMMA NextServing == TypeOK /\ ServingInv /\ [Next]_vars => ServingInv'
<1> SUFFICES ASSUME TypeOK, ServingInv, [Next]_vars PROVE ServingInv'
  OBVIOUS
<1> USE DEF ServingInv, Alive
<1>1. CASE StartHTTP
  BY <1>1 DEF StartHTTP, Exit
<1>2. CASE StartDiameter \/ SkipRegistration \/ Notify
  BY <1>2 DEF StartDiameter, SkipRegistration, Notify
<1>3. CASE Register
  BY <1>3 DEF Register
<1>4. CASE RegisterFatal
  BY <1>4 DEF RegisterFatal
<1>5. CASE Wake \/ CloseHTTP
  BY <1>5 DEF Wake, CloseHTTP
<1>6. CASE Unregister
  BY <1>6 DEF Unregister
<1>7. CASE DrainHTTP
  BY <1>7 DEF DrainHTTP
<1>8. CASE StopDiameter
  BY <1>8 DEF StopDiameter, Exit
<1>9. CASE DiameterListens
  BY <1>9 DEF DiameterListens, Exit
<1>10. CASE Signal
  BY <1>10 DEF Signal, Exit
<1>11. ASSUME NEW r \in Request, Accept(r) \/ Respond(r) PROVE ServingInv'
  BY <1>11 DEF Accept, Respond
<1>12. CASE UNCHANGED vars
  BY <1>12 DEF vars
<1> QED
  BY <1>1, <1>2, <1>3, <1>4, <1>5, <1>6, <1>7, <1>8, <1>9, <1>10, <1>11, <1>12
  DEF Next, Main

LEMMA ServingServes == TypeOK /\ ServingInv => RegisteredServes
BY DEF TypeOK, ServingInv, Alive, RegisteredServes

\* The manager lists the pod only while its port is bound, but for a process
\* that was ended and an Unregister that failed: wherever a start fails, an
\* answer is lost or a signal comes.
THEOREM ListedServes == Spec => []RegisteredServes
<1>1. Init => TypeOK /\ ServingInv
  BY InitType, InitServing
<1>2. TypeOK /\ ServingInv /\ [Next]_vars => (TypeOK /\ ServingInv)'
  BY NextType, NextServing
<1> QED
  BY <1>1, <1>2, ServingServes, PTL DEF Spec

-----------------------------------------------------------------------------
(***************************************************************************)
(* Why an orderly end answers: with the listener closed no HTTP/1.1        *)
(* request comes in any more, so those that Shutdown found answered when   *)
(* it returned in time are the last.                                       *)
(***************************************************************************)

DrainInv ==
    /\ exit = "no" => \A r \in Request : requests[r] # "cut"
    /\ main \in {"drain", "stop"} => http = "closed"
    /\ main = "stop" /\ ~late => Open(Http1) = {}
    /\ exit # "no" => main = "ended"

LEMMA InitDrain == Init => DrainInv /\ OrderlyAnswers
BY DEF Init, DrainInv, OrderlyAnswers, Open

\* An end by an error or a signal is not orderly.
LEMMA ExitDrain ==
    ASSUME DrainInv, OrderlyAnswers,
           NEW how \in {"fatal", "panic", "killed"}, Exit(how)
    PROVE  DrainInv' /\ OrderlyAnswers'
BY DEF DrainInv, OrderlyAnswers, Open, Exit

\* Steps that leave the requests, the end and `late' alone.
LEMMA QuietDrain ==
    ASSUME DrainInv, OrderlyAnswers,
           UNCHANGED <<requests, exit, late>>,
           main' \in {"drain", "stop"} => http' = "closed",
           main' = "stop" => main = "stop",
           exit # "no" => main' = main
    PROVE  DrainInv' /\ OrderlyAnswers'
BY DEF DrainInv, OrderlyAnswers, Open

LEMMA NextDrain ==
    TypeOK /\ DrainInv /\ OrderlyAnswers /\ [Next]_vars
      => DrainInv' /\ OrderlyAnswers'
<1> SUFFICES ASSUME TypeOK, DrainInv, OrderlyAnswers, [Next]_vars
             PROVE  DrainInv' /\ OrderlyAnswers'
  OBVIOUS
<1>1. CASE StartHTTP
  <2>1. CASE Exit("fatal")
    BY <2>1, ExitDrain
  <2>2. CASE ~Exit("fatal")
    BY <1>1, <2>2, QuietDrain DEF StartHTTP, DrainInv
  <2> QED
    BY <2>1, <2>2
<1>2. CASE StartDiameter \/ SkipRegistration \/ Notify \/ Register
  BY <1>2, QuietDrain
  DEF StartDiameter, SkipRegistration, Notify, Register, DrainInv
<1>3. CASE RegisterFatal
  BY <1>3 DEF RegisterFatal, DrainInv, OrderlyAnswers
<1>4. CASE Wake \/ Unregister \/ CloseHTTP
  BY <1>4, QuietDrain DEF Wake, Unregister, CloseHTTP, DrainInv
<1>5. CASE DrainHTTP
  <2>1. ~late' => Open(Http1) = {}
    BY <1>5 DEF DrainHTTP
  <2> QED
    BY <1>5, <2>1 DEF DrainHTTP, DrainInv, OrderlyAnswers, Open
<1>6. CASE StopDiameter
  <2>1. ~late => \A r \in Http1 : requests[r] # "open" /\ requests[r] # "cut"
    BY <1>6 DEF StopDiameter, DrainInv, Open, Request
  <2> QED
    BY <1>6, <2>1 DEF StopDiameter, Exit, DrainInv, OrderlyAnswers, Request
<1>7. CASE DiameterListens
  <2>1. CASE Exit("panic")
    BY <2>1, ExitDrain
  <2>2. CASE ~Exit("panic")
    BY <1>7, <2>2, QuietDrain DEF DiameterListens, DrainInv
  <2> QED
    BY <2>1, <2>2
<1>8. CASE Signal
  <2>1. CASE Exit("killed")
    BY <2>1, ExitDrain
  <2>2. CASE ~Exit("killed")
    BY <1>8, <2>2, QuietDrain DEF Signal, DrainInv
  <2> QED
    BY <2>1, <2>2
<1>9. ASSUME NEW r \in Request, Accept(r) PROVE DrainInv' /\ OrderlyAnswers'
  <2>1. exit = "no" /\ main' = main /\ http' = http /\ UNCHANGED <<exit, late>>
    BY <1>9 DEF Accept
  <2>2. \A q \in Request : requests'[q] = IF q = r THEN "open" ELSE requests[q]
    BY <1>9 DEF Accept, TypeOK
  <2>3. main = "stop" => r \notin Http1
    BY <1>9, RequestAssumption DEF Accept, DrainInv
  <2>4. main' = "stop" /\ ~late' => Open(Http1)' = {}
    BY <2>1, <2>2, <2>3 DEF DrainInv, Open, Request
  <2> QED
    BY <2>1, <2>2, <2>4 DEF DrainInv, OrderlyAnswers
<1>10. ASSUME NEW r \in Request, Respond(r) PROVE DrainInv' /\ OrderlyAnswers'
  <2>1. exit = "no" /\ main' = main /\ http' = http /\ UNCHANGED <<exit, late>>
    BY <1>10 DEF Respond
  <2>2. \A q \in Request :
          requests'[q] = IF q = r THEN "answered" ELSE requests[q]
    BY <1>10 DEF Respond, TypeOK
  <2>3. main' = "stop" /\ ~late' => Open(Http1)' = {}
    BY <2>1, <2>2 DEF DrainInv, Open, Request
  <2> QED
    BY <2>1, <2>2, <2>3 DEF DrainInv, OrderlyAnswers
<1>11. CASE UNCHANGED vars
  BY <1>11, QuietDrain DEF vars, DrainInv
<1> QED
  BY <1>1, <1>2, <1>3, <1>4, <1>5, <1>6, <1>7, <1>8, <1>9, <1>10, <1>11
  DEF Next, Main

\* Whatever arrives and whenever, an orderly end that had the time cuts no
\* HTTP/1.1 request off.
THEOREM RequestsAnswered == Spec => []OrderlyAnswers
<1>1. Init => TypeOK /\ DrainInv /\ OrderlyAnswers
  BY InitType, InitDrain
<1>2. TypeOK /\ DrainInv /\ OrderlyAnswers /\ [Next]_vars
        => (TypeOK /\ DrainInv /\ OrderlyAnswers)'
  BY NextType, NextDrain
<1> QED
  BY <1>1, <1>2, PTL DEF Spec

-----------------------------------------------------------------------------
(***************************************************************************)
(* What SignalEnds and DiameterServes rest on, said without fairness: main *)
(* only goes forward, a signal is taken out of the channel only to shut    *)
(* down, and whoever is registered has started the Diameter goroutine.     *)
(***************************************************************************)

\* main's way, and how far it is.
Way == <<"http", "diameter", "register", "notify", "wait", "unregister",
         "close", "drain", "stop", "ended">>

Forward ==
    /\ main' # main =>
          \E m, n \in 1..10 : m < n /\ Way[m] = main /\ Way[n] = main'
    /\ quit /\ ~quit' => main = "wait" /\ main' = "unregister"

\* A signal in the channel finds main waiting or shutting down, and a process
\* that has not ended is on its way.
StartedInv ==
    /\ exit = "no" <=> main # "ended"
    /\ quit => main \notin {"http", "diameter", "register", "notify"}
    /\ main \notin {"http", "diameter", "ended"} =>
          diameter \in {"starting", "listening"}
    /\ registered => main \notin {"http", "diameter", "register"}

LEMMA InitStarted == Init => StartedInv
BY DEF Init, StartedInv

LEMMA NextStarted == StartedInv /\ [Next]_vars => StartedInv'
<1> SUFFICES ASSUME StartedInv, [Next]_vars
             PROVE  StartedInv'
  OBVIOUS
<1>1. CASE \E how \in {"fatal", "panic", "killed", "orderly"} : Exit(how)
  BY <1>1 DEF Exit, StartedInv
<1>2. CASE StartHTTP
  BY <1>1, <1>2 DEF StartHTTP, StartedInv
<1>3. CASE StartDiameter
  BY <1>3 DEF StartDiameter, StartedInv
<1>4. CASE SkipRegistration
  BY <1>4 DEF SkipRegistration, StartedInv
<1>5. CASE Register
  BY <1>5 DEF Register, StartedInv
<1>6. CASE RegisterFatal
  BY <1>6 DEF RegisterFatal, StartedInv
<1>7. CASE Notify
  BY <1>7 DEF Notify, StartedInv
<1>8. CASE Wake
  BY <1>8 DEF Wake, StartedInv
<1>9. CASE Unregister
  BY <1>9 DEF Unregister, StartedInv
<1>10. CASE CloseHTTP
  BY <1>10 DEF CloseHTTP, StartedInv
<1>11. CASE DrainHTTP
  BY <1>11 DEF DrainHTTP, StartedInv
<1>12. CASE StopDiameter
  BY <1>1, <1>12 DEF StopDiameter
<1>13. CASE DiameterListens
  BY <1>1, <1>13 DEF DiameterListens, StartedInv
<1>14. CASE Signal
  BY <1>1, <1>14 DEF Signal, StartedInv
<1>15. CASE \E r \in Request : Accept(r) \/ Respond(r)
  BY <1>15 DEF Accept, Respond, StartedInv
<1>16. CASE UNCHANGED vars
  BY <1>16 DEF vars, StartedInv
<1> QED
  BY <1>2, <1>3, <1>4, <1>5, <1>6, <1>7, <1>8, <1>9, <1>10, <1>11, <1>12,
     <1>13, <1>14, <1>15, <1>16 DEF Next, Main

LEMMA StepForward == TypeOK /\ StartedInv /\ [Next]_vars => Forward
<1> SUFFICES ASSUME TypeOK, StartedInv, [Next]_vars
             PROVE  Forward
  OBVIOUS
<1>a. /\ Way[1] = "http" /\ Way[2] = "diameter" /\ Way[3] = "register"
      /\ Way[4] = "notify" /\ Way[5] = "wait" /\ Way[6] = "unregister"
      /\ Way[7] = "close" /\ Way[8] = "drain" /\ Way[9] = "stop"
      /\ Way[10] = "ended"
  BY DEF Way
<1>b. ASSUME main' = "ended", UNCHANGED quit
      PROVE  Forward
  BY <1>a, <1>b DEF TypeOK, Forward
<1>1. CASE \E how \in {"fatal", "panic", "killed", "orderly"} : Exit(how)
  BY <1>b, <1>1 DEF Exit
<1>2. CASE StartHTTP
  BY <1>a, <1>1, <1>2 DEF StartHTTP, Forward
<1>3. CASE StartDiameter
  BY <1>a, <1>3 DEF StartDiameter, Forward
<1>4. CASE SkipRegistration
  BY <1>a, <1>4 DEF SkipRegistration, Forward
<1>5. CASE Register
  BY <1>a, <1>5 DEF Register, Forward
<1>6. CASE RegisterFatal
  BY <1>b, <1>6 DEF RegisterFatal
<1>7. CASE Notify
  BY <1>a, <1>7 DEF Notify, Forward
<1>8. CASE Wake
  BY <1>a, <1>8 DEF Wake, Forward
<1>9. CASE Unregister
  BY <1>a, <1>9 DEF Unregister, Forward
<1>10. CASE CloseHTTP
  BY <1>a, <1>10 DEF CloseHTTP, Forward
<1>11. CASE DrainHTTP
  BY <1>a, <1>11 DEF DrainHTTP, Forward
<1>12. CASE StopDiameter
  BY <1>1, <1>12 DEF StopDiameter
<1>13. CASE DiameterListens
  BY <1>1, <1>13 DEF DiameterListens, Forward
<1>14. CASE Signal
  BY <1>1, <1>14 DEF Signal, Forward
<1>15. CASE \E r \in Request : Accept(r) \/ Respond(r)
  BY <1>15 DEF Accept, Respond, Forward
<1>16. CASE UNCHANGED vars
  BY <1>16 DEF vars, Forward
<1> QED
  BY <1>2, <1>3, <1>4, <1>5, <1>6, <1>7, <1>8, <1>9, <1>10, <1>11, <1>12,
     <1>13, <1>14, <1>15, <1>16 DEF Next, Main

\* main never goes back and drops no signal it waits for, and a pod that was
\* registered has its Diameter goroutine under way or has ended.
THEOREM GoesForward == Spec => [][Forward]_vars /\ []StartedInv
<1>1. Init => TypeOK /\ StartedInv
  BY InitType, InitStarted
<1>2. TypeOK /\ StartedInv /\ [Next]_vars => (TypeOK /\ StartedInv)'
  BY NextType, NextStarted
<1> QED
  BY <1>1, <1>2, StepForward, PTL DEF Spec

=============================================================================
