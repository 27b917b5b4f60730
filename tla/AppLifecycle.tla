---------------------------- MODULE AppLifecycle ----------------------------
(***************************************************************************)
(* The process of cmd/eir from its start to its end: main starts the HTTP  *)
(* server, starts the Diameter server in a goroutine, registers with the   *)
(* governance manager, waits for a signal, and shuts everything down.      *)
(*                                                                         *)
(* External are the manager, whose answers may be lost, the Diameter       *)
(* library, whose Start blocks or fails, and net/http, whose Shutdown      *)
(* waits for HTTP/1.1 requests but knows nothing of the connections the    *)
(* h2c handler has taken over.                                             *)
(***************************************************************************)
EXTENDS Naturals

CONSTANTS
    Http1,         \* HTTP/1.1 requests of clients
    H2c            \* HTTP/2 cleartext requests of clients

ASSUME RequestAssumption == Http1 \cap H2c = {}

Request == Http1 \cup H2c

VARIABLES
    Enabled,       \* cfg.Governance.Enabled
    FailOnError,   \* cfg.Governance.FailOnError
    main,          \* what main does next
    exit,          \* how the process has ended: "no" while it runs
    http,          \* the HTTP server's listener
    diameter,      \* the goroutine in diamServer.Start
    registered,    \* the manager lists the pod
    unregistered,  \* what Unregister told main: "no", "ok" or "error"
    quit,          \* a signal is in the channel quit
    late,          \* Shutdown ran into ShutdownTimeout
    requests       \* the clients' requests

vars == <<Enabled, FailOnError, main, exit, http, diameter, registered,
          unregistered, quit, late, requests>>

Init ==
    /\ Enabled \in BOOLEAN
    /\ FailOnError \in BOOLEAN
    /\ main = "http"
    /\ exit = "no"
    /\ http = "down"
    /\ diameter = "down"
    /\ registered = FALSE
    /\ unregistered = "no"
    /\ quit = FALSE
    /\ late = FALSE
    /\ requests = [r \in Request |-> "none"]

Open(R) == {r \in R : requests[r] = "open"}

\* Seeded fault: the requests that were answered are forgotten.
ExitForgets(how) ==
    /\ exit' = how
    /\ main' = "ended"
    /\ http' = "closed"
    /\ diameter' = "closed"
    /\ requests' = [r \in Open(Request) |-> "cut"]
    /\ UNCHANGED <<Enabled, FailOnError, registered, unregistered, quit, late>>

\* The process ends: its sockets close, and open requests get no answer.
Exit(how) ==
    /\ exit' = how
    /\ main' = "ended"
    /\ http' = "closed"
    /\ diameter' = "closed"
    /\ requests' = [r \in Request |->
                       IF requests[r] = "open" THEN "cut" ELSE requests[r]]
    /\ UNCHANGED <<Enabled, FailOnError, registered, unregistered, quit, late>>

-----------------------------------------------------------------------------
(* Start *)

\* initializeHTTPServer: the port is bound when it returns, or the process ends.
StartHTTP ==
    /\ main = "http"
    /\ \/ /\ http' = "listening"
          /\ main' = "diameter"
          /\ UNCHANGED <<Enabled, FailOnError, exit, diameter, registered,
                         unregistered, quit, late, requests>>
       \/ Exit("fatal")

\* initializeDiameterServer only starts the goroutine.
StartDiameter ==
    /\ main = "diameter"
    /\ diameter' = "starting"
    /\ main' = "register"
    /\ UNCHANGED <<Enabled, FailOnError, exit, http, registered, unregistered,
                   quit, late, requests>>

\* Seeded fault: the goroutine logs the error and returns.
DiameterListensQuietly ==
    /\ diameter = "starting"
    /\ diameter' \in {"listening", "down"}
    /\ UNCHANGED <<Enabled, FailOnError, main, exit, http, registered,
                   unregistered, quit, late, requests>>

\* The goroutine: diamServer.Start listens, or fails and the process panics.
DiameterListens ==
    /\ diameter = "starting"
    /\ \/ /\ diameter' = "listening"
          /\ UNCHANGED <<Enabled, FailOnError, main, exit, http, registered,
                         unregistered, quit, late, requests>>
       \/ Exit("panic")

\* registerWithGovernance, when governance is disabled.
SkipRegistration ==
    /\ main = "register"
    /\ ~Enabled
    /\ main' = "notify"
    /\ UNCHANGED <<Enabled, FailOnError, exit, http, diameter, registered,
                   unregistered, quit, late, requests>>

\* Register succeeds; or fails, or its answer is lost after the manager listed
\* the pod, and main is told of an error it may go on with.
Register ==
    /\ main = "register"
    /\ Enabled
    /\ \E told \in {"ok", "error"} :
          /\ told = "error" => ~FailOnError
          /\ \/ registered' = TRUE
             \/ told = "error" /\ UNCHANGED registered
          /\ main' = "notify"
    /\ UNCHANGED <<Enabled, FailOnError, exit, http, diameter, unregistered,
                   quit, late, requests>>

\* The error ends the process, whatever the manager has done.
RegisterFatal ==
    /\ main = "register"
    /\ Enabled /\ FailOnError
    /\ registered' \in BOOLEAN
    /\ exit' = "fatal"
    /\ main' = "ended"
    /\ http' = "closed"
    /\ diameter' = "closed"
    /\ requests' = [r \in Request |->
                       IF requests[r] = "open" THEN "cut" ELSE requests[r]]
    /\ UNCHANGED <<Enabled, FailOnError, unregistered, quit, late>>

\* signal.Notify: from here on SIGINT and SIGTERM go to the channel.
Notify ==
    /\ main = "notify"
    /\ main' = "wait"
    /\ UNCHANGED <<Enabled, FailOnError, exit, http, diameter, registered,
                   unregistered, quit, late, requests>>

\* SIGINT or SIGTERM: before Notify it ends the process at once.
Signal ==
    /\ exit = "no"
    /\ IF main \in {"http", "diameter", "register", "notify"}
       THEN Exit("killed")
       ELSE /\ quit' = TRUE
            /\ UNCHANGED <<Enabled, FailOnError, main, exit, http, diameter,
                           registered, unregistered, late, requests>>

-----------------------------------------------------------------------------
(* Requests *)

\* A connection the h2c handler has taken over goes on after Shutdown.
Accept(r) ==
    /\ exit = "no"
    /\ \/ http = "listening"
       \/ /\ http = "closed" /\ r \in H2c
          /\ \E other \in H2c : requests[other] # "none"
    /\ requests[r] = "none"
    /\ requests' = [requests EXCEPT ![r] = "open"]
    /\ UNCHANGED <<Enabled, FailOnError, main, exit, http, diameter, registered,
                   unregistered, quit, late>>

Respond(r) ==
    /\ exit = "no"
    /\ requests[r] = "open"
    /\ requests' = [requests EXCEPT ![r] = "answered"]
    /\ UNCHANGED <<Enabled, FailOnError, main, exit, http, diameter, registered,
                   unregistered, quit, late>>

-----------------------------------------------------------------------------
(* shutdown *)

\* Seeded fault: shutdown only stops the servers.
WakeToClose ==
    /\ main = "wait"
    /\ quit
    /\ quit' = FALSE
    /\ main' = "close"
    /\ UNCHANGED <<Enabled, FailOnError, exit, http, diameter, registered,
                   unregistered, late, requests>>

Wake ==
    /\ main = "wait"
    /\ quit
    /\ quit' = FALSE
    /\ main' = "unregister"
    /\ UNCHANGED <<Enabled, FailOnError, exit, http, diameter, registered,
                   unregistered, late, requests>>

\* Unregister, whenever there is a client: also after a failed registration.
\* An error is logged.
Unregister ==
    /\ main = "unregister"
    /\ IF ~Enabled THEN UNCHANGED <<registered, unregistered>>
       ELSE \/ registered' = FALSE /\ unregistered' \in {"ok", "error"}
            \/ UNCHANGED registered /\ unregistered' = "error"
    /\ main' = "close"
    /\ UNCHANGED <<Enabled, FailOnError, exit, http, diameter, quit, late,
                   requests>>

\* httpServer.Stop: Shutdown closes the listener,
CloseHTTP ==
    /\ main = "close"
    /\ http' = "closed"
    /\ main' = "drain"
    /\ UNCHANGED <<Enabled, FailOnError, exit, diameter, registered,
                   unregistered, quit, late, requests>>

\* Seeded fault: Close instead of Shutdown.
DrainHTTPNever ==
    /\ main = "drain"
    /\ main' = "stop"
    /\ UNCHANGED <<Enabled, FailOnError, exit, http, diameter, registered,
                   unregistered, quit, late, requests>>

\* Seeded fault: Shutdown with a context that never ends.
DrainHTTPForever ==
    /\ main = "drain"
    /\ Open(Http1) = {}
    /\ main' = "stop"
    /\ UNCHANGED <<Enabled, FailOnError, exit, http, diameter, registered,
                   unregistered, quit, late, requests>>

\* and waits for HTTP/1.1 requests, at most ShutdownTimeout.
DrainHTTP ==
    /\ main = "drain"
    /\ late' = (Open(Http1) # {})
    /\ main' = "stop"
    /\ UNCHANGED <<Enabled, FailOnError, exit, http, diameter, registered,
                   unregistered, quit, requests>>

\* diameterServer.Stop, and main returns.
StopDiameter == main = "stop" /\ Exit("orderly")

-----------------------------------------------------------------------------

Main == \/ StartHTTP \/ StartDiameter \/ SkipRegistration \/ Register
        \/ RegisterFatal \/ Notify \/ Wake \/ Unregister \/ CloseHTTP
        \/ DrainHTTP \/ StopDiameter

Next == \/ Main
        \/ DiameterListens
        \/ Signal
        \/ \E r \in Request : Accept(r) \/ Respond(r)

Spec == Init /\ [][Next]_vars

\* The goroutines run.
FairSpec == Spec /\ WF_vars(Main) /\ WF_vars(DiameterListens)

-----------------------------------------------------------------------------
(* Properties *)

TypeOK ==
    /\ {Enabled, FailOnError, registered, quit, late} \subseteq BOOLEAN
    /\ main \in {"http", "diameter", "register", "notify", "wait",
                 "unregister", "close", "drain", "stop", "ended"}
    /\ exit \in {"no", "fatal", "panic", "killed", "orderly"}
    /\ http \in {"down", "listening", "closed"}
    /\ diameter \in {"down", "starting", "listening", "closed"}
    /\ unregistered \in {"no", "ok", "error"}
    /\ requests \in [Request -> {"none", "open", "answered", "cut"}]

\* A pod the manager lists takes HTTP requests: it listens before it registers
\* and stops only after it unregistered.  Excepted are a process that was ended
\* from outside or by an error, and an Unregister that failed.
RegisteredServes ==
    registered => \/ http = "listening"
                  \/ exit \in {"fatal", "panic", "killed"}
                  \/ unregistered = "error"

\* An HTTP/1.1 request that was accepted is answered before an orderly end,
\* unless the shutdown ran out of time.
OrderlyAnswers ==
    exit = "orderly" /\ ~late => \A r \in Http1 : requests[r] # "cut"

\* A pod that registered serves Diameter in the end, or ends.
DiameterServes == registered ~> diameter = "listening" \/ exit # "no"

\* A signal that main waits for ends the process, whatever fails on the way.
SignalEnds == quit ~> exit # "no"

=============================================================================
