--------------------------- MODULE DiameterGateway ---------------------------
(***************************************************************************)
(* The path of a Diameter request in test/integration/containers: from a   *)
(* client over the simulated DRA, which has a connection to the gateway    *)
(* for each client, to the gateway, which has one connection to the EIR    *)
(* core for all of them, and back.                                         *)
(*                                                                         *)
(* A goroutine of the gateway takes or makes that connection under a lock, *)
(* writes its request and reads one answer without it.  Under the lock it  *)
(* tests the connection by reading a byte from it for 10 ms: silence means *)
(* dead, a byte or the end of the stream means alive.                      *)
(*                                                                         *)
(* External are TCP, and the EIR core, which answers in any order and may  *)
(* restart.                                                                *)
(***************************************************************************)
EXTENDS Naturals, Sequences, FiniteSets

CONSTANTS
    Client,        \* clients of the DRA, and the goroutines that serve them
    Nobody,        \* no client
    Garbage,       \* what is read from a stream off its message boundaries
    MaxRequests,   \* bound: requests in a behaviour
    MaxRestarts    \* bound: restarts of the EIR core

ASSUME BoundAssumption == MaxRequests \in Nat /\ MaxRestarts \in Nat

VARIABLES
    link,          \* the client's connection to the DRA and the DRA's for it
    through,       \* requests on their way through the DRA to the gateway
    back,          \* answers on their way from the gateway to the DRA
    received,      \* answers the client has got
    sent,          \* number of requests so far
    pc,            \* what the gateway's goroutine for the client does next
    msg,           \* the request it works on
    using,         \* the connection to the EIR core it works with, or 0
    answer,        \* the answer it has read
    lock,          \* goroutine that holds eirConnMutex
    eirConn,       \* the gateway's connection to the EIR core, or 0
    conn,          \* every connection dialled so far
    eirUp,         \* the EIR core runs
    restarts,      \* how often it was started again
    phase          \* the gateway: "running", "stopping" or "stopped"

clientVars == <<link, received, sent>>
gatewayVars == <<pc, msg, using, answer, lock, eirConn>>
eirVars == <<eirUp, restarts>>
vars == <<clientVars, through, back, gatewayVars, conn, eirVars, phase>>

\* base is CER or DWR, which the gateway answers itself; ECR is forwarded, and
\* the rest dropped.
Command == {"base", "ECR", "other"}
Message == [client : Client, n : 1..MaxRequests, command : Command]

ASSUME NobodyAssumption == Nobody \notin Client \cup Message

ASSUME GarbageAssumption == Garbage \notin Message

\* sound, only for the properties: no test took a byte of the connection it was
\* read from, if it was read from one.
Answer == [of : Message \cup {Garbage}, sound : BOOLEAN]

NoAnswer == [of |-> Garbage, sound |-> FALSE]

\* The header of a message and its body are read by separate calls; "rest" is
\* what is left of either when some of its bytes were read.
Piece == [of : Message, part : {"head", "body", "rest"}]

\* pending: requests the EIR core works on; down: what it has answered; torn: a
\* test took a byte of that, only for the properties.
Conn == [state : {"open", "ended", "reset", "closed"},
         pending : SUBSET Message, down : Seq(Piece), torn : BOOLEAN]

Fresh == [state |-> "open", pending |-> {}, down |-> <<>>, torn |-> FALSE]
Closed == [Fresh EXCEPT !.state = "closed"]

Dialled == DOMAIN conn
Reading(k) == {c \in Client : using[c] = k /\ pc[c] \in {"head", "body"}}

\* What may be left of pieces when some of their bytes are read, but not just
\* those the next call wants: whole pieces gone, and the next one cut or not.
Remainders(down) ==
    {SubSeq(down, n + 1, Len(down)) : n \in 1..Len(down)} \cup
    {[SubSeq(down, n, Len(down)) EXCEPT ![1].part = "rest"] : n \in 1..Len(down)}

\* What may be left when it is one byte.
Shortened(down) ==
    {[down EXCEPT ![1].part = "rest"]} \cup
    (IF Head(down).part = "rest" THEN {Tail(down)} ELSE {})

Init ==
    /\ link = [c \in Client |-> "new"]
    /\ through = [c \in Client |-> <<>>]
    /\ back = [c \in Client |-> <<>>]
    /\ received = [c \in Client |-> <<>>]
    /\ sent = 0
    /\ pc = [c \in Client |-> "read"]
    /\ msg = [c \in Client |-> Nobody]
    /\ using = [c \in Client |-> 0]
    /\ answer = [c \in Client |-> NoAnswer]
    /\ lock = Nobody
    /\ eirConn = 0
    /\ conn = <<>>
    /\ eirUp = TRUE
    /\ restarts = 0
    /\ phase = "running"

-----------------------------------------------------------------------------
(* Clients and the DRA *)

\* The DRA accepts the client and dials the gateway, or gives up after five
\* attempts and closes the client's connection.
Connect(c) ==
    /\ link[c] = "new"
    /\ \/ link' = [link EXCEPT ![c] = "up"] /\ phase = "running"
       \/ link' = [link EXCEPT ![c] = "down"]
    /\ UNCHANGED <<received, sent, through, back, gatewayVars, conn, eirVars,
                   phase>>

\* forwardMessages, client to gateway: the client sends a request, waiting for
\* an answer to those before or not, and the DRA passes it on in order.
ForwardRequest(c, command) ==
    /\ link[c] = "up"
    /\ sent < MaxRequests
    /\ sent' = sent + 1
    /\ through' = [through EXCEPT ![c] =
                      Append(@, [client |-> c, n |-> sent', command |-> command])]
    /\ UNCHANGED <<link, received, back, gatewayVars, conn, eirVars, phase>>

\* forwardMessages, gateway to client.
ForwardAnswer(c) ==
    /\ link[c] = "up"
    /\ back[c] # <<>>
    /\ back' = [back EXCEPT ![c] = Tail(@)]
    /\ received' = [received EXCEPT ![c] = Append(@, Head(back[c]))]
    /\ UNCHANGED <<link, sent, through, gatewayVars, conn, eirVars, phase>>

\* Either direction fails: the DRA closes both connections.
Disconnect(c) ==
    /\ link[c] = "up"
    /\ link' = [link EXCEPT ![c] = "down"]
    /\ back' = [back EXCEPT ![c] = <<>>]
    /\ UNCHANGED <<received, sent, through, gatewayVars, conn, eirVars, phase>>

-----------------------------------------------------------------------------
(* handleDRAConnection *)

\* routeMessage: what is to be forwarded waits for the lock.
Read(c) ==
    LET m == Head(through[c]) IN
    /\ pc[c] = "read"
    /\ through[c] # <<>>
    /\ through' = [through EXCEPT ![c] = Tail(@)]
    /\ pc' = [pc EXCEPT ![c] = CASE m.command = "base" -> "reply"
                                 [] m.command = "ECR" -> "lock"
                                 [] OTHER -> "read"]
    /\ msg' = [msg EXCEPT ![c] = IF m.command = "other" THEN Nobody ELSE m]
    /\ answer' = [answer EXCEPT ![c] = IF m.command = "base"
                                       THEN [of |-> m, sound |-> TRUE]
                                       ELSE NoAnswer]
    /\ UNCHANGED <<clientVars, back, using, lock, eirConn, conn, eirVars,
                   phase>>

\* The answer goes to the DRA, unless the connection is closed.
Reply(c) ==
    /\ pc[c] = "reply"
    /\ IF link[c] = "up"
       THEN /\ back' = [back EXCEPT ![c] = Append(@, answer[c])]
            /\ pc' = [pc EXCEPT ![c] = "read"]
       ELSE /\ pc' = [pc EXCEPT ![c] = "closed"]
            /\ UNCHANGED back
    /\ msg' = [msg EXCEPT ![c] = Nobody]
    /\ answer' = [answer EXCEPT ![c] = NoAnswer]
    /\ UNCHANGED <<clientVars, through, using, lock, eirConn, conn, eirVars,
                   phase>>

\* The connection to the DRA is closed.
End(c) ==
    /\ pc[c] = "read"
    /\ link[c] = "down"
    /\ pc' = [pc EXCEPT ![c] = "closed"]
    /\ UNCHANGED <<clientVars, through, back, msg, using, answer, lock,
                   eirConn, conn, eirVars, phase>>

\* An error of forwardToEIRCore: it is logged, and the next request read.
GiveUp(c) ==
    /\ pc' = [pc EXCEPT ![c] = "read"]
    /\ using' = [using EXCEPT ![c] = 0]
    /\ msg' = [msg EXCEPT ![c] = Nobody]
    /\ answer' = [answer EXCEPT ![c] = NoAnswer]

-----------------------------------------------------------------------------
(* getEIRConnection *)

Lock(c) ==
    /\ pc[c] = "lock"
    /\ lock = Nobody
    /\ lock' = c
    /\ pc' = [pc EXCEPT ![c] = IF eirConn = 0 THEN "dial" ELSE "probe"]
    /\ UNCHANGED <<clientVars, through, back, msg, using, answer, eirConn,
                   conn, eirVars, phase>>

\* The connection counts as alive: the goroutine takes it.
Alive(c) ==
    /\ using' = [using EXCEPT ![c] = eirConn]
    /\ pc' = [pc EXCEPT ![c] = "write"]
    /\ lock' = Nobody
    /\ UNCHANGED <<clientVars, through, back, msg, answer, eirConn, eirVars,
                   phase>>

\* Seeded fault: it is forgotten, but not closed.
DeadForgotten(c) ==
    /\ UNCHANGED conn
    /\ eirConn' = 0
    /\ pc' = [pc EXCEPT ![c] = "dial"]
    /\ UNCHANGED <<clientVars, through, back, msg, using, answer, lock,
                   eirVars, phase>>

\* It counts as dead: it is closed, and a new one dialled.
Dead(c) ==
    /\ conn' = [conn EXCEPT ![eirConn] = Closed]
    /\ eirConn' = 0
    /\ pc' = [pc EXCEPT ![c] = "dial"]
    /\ UNCHANGED <<clientVars, through, back, msg, using, answer, lock,
                   eirVars, phase>>

\* Seeded fault: a connection on which nothing happens counts as alive.
ProbeTimeoutAlive(c) ==
    /\ pc[c] = "probe"
    /\ conn[eirConn].state = "open"
    /\ conn[eirConn].down = <<>> \/ Reading(eirConn) # {}
    /\ Alive(c)
    /\ UNCHANGED conn

\* The deadline passes: nothing came, or another goroutine has read it.  Its
\* read ends too, as it would when the connection is closed.
ProbeTimeout(c) ==
    /\ pc[c] = "probe"
    /\ conn[eirConn].state = "open"
    /\ conn[eirConn].down = <<>> \/ Reading(eirConn) # {}
    /\ Dead(c)

\* A byte of an answer to somebody else is read, and lost.
ProbeByte(c) ==
    /\ pc[c] = "probe"
    /\ conn[eirConn].down # <<>>
    /\ \E d \in Shortened(conn[eirConn].down) :
          conn' = [conn EXCEPT ![eirConn].down = d, ![eirConn].torn = TRUE]
    /\ Alive(c)

\* io.EOF: the EIR core has closed the connection.
ProbeEOF(c) ==
    /\ pc[c] = "probe"
    /\ conn[eirConn].state = "ended"
    /\ conn[eirConn].down = <<>>
    /\ Alive(c)
    /\ UNCHANGED conn

ProbeError(c) ==
    /\ pc[c] = "probe"
    /\ conn[eirConn].state = "reset"
    /\ Dead(c)

\* Seeded fault: the caller is not told which connection it is.
DialUnused(c) ==
    /\ pc[c] = "dial"
    /\ eirUp
    /\ conn' = Append(conn, Fresh)
    /\ eirConn' = Len(conn')
    /\ pc' = [pc EXCEPT ![c] = "write"]
    /\ lock' = Nobody
    /\ UNCHANGED <<clientVars, through, back, msg, using, answer, eirVars,
                   phase>>

Dial(c) ==
    /\ pc[c] = "dial"
    /\ eirUp
    /\ conn' = Append(conn, Fresh)
    /\ eirConn' = Len(conn')
    /\ using' = [using EXCEPT ![c] = Len(conn')]
    /\ pc' = [pc EXCEPT ![c] = "write"]
    /\ lock' = Nobody
    /\ UNCHANGED <<clientVars, through, back, msg, answer, eirVars, phase>>

\* Seeded fault: the early return keeps the lock.
DialFailsLocked(c) ==
    /\ pc[c] = "dial"
    /\ ~eirUp
    /\ GiveUp(c)
    /\ UNCHANGED <<clientVars, through, back, lock, eirConn, conn, eirVars,
                   phase>>

DialFails(c) ==
    /\ pc[c] = "dial"
    /\ ~eirUp
    /\ lock' = Nobody
    /\ GiveUp(c)
    /\ UNCHANGED <<clientVars, through, back, eirConn, conn, eirVars, phase>>

-----------------------------------------------------------------------------
(* forwardToEIRCore, without the lock *)

\* A connection the other side has closed may still take the request, for
\* nothing.
Write(c) ==
    LET k == using[c] IN
    /\ pc[c] = "write"
    /\ \/ /\ conn[k].state = "open"
          /\ conn' = [conn EXCEPT ![k].pending = @ \cup {msg[c]}]
          /\ pc' = [pc EXCEPT ![c] = "head"]
          /\ UNCHANGED <<msg, answer, using>>
       \/ /\ conn[k].state = "ended"
          /\ pc' = [pc EXCEPT ![c] = "head"]
          /\ UNCHANGED <<msg, answer, using, conn>>
       \/ /\ conn[k].state # "open"
          /\ GiveUp(c)
          /\ UNCHANGED conn
    /\ UNCHANGED <<clientVars, through, back, lock, eirConn, eirVars, phase>>

\* The 20 bytes of the header, the length in them.
ReadHead(c) ==
    LET k == using[c] IN
    /\ pc[c] = "head"
    /\ conn[k].state \in {"open", "ended"}
    /\ conn[k].down # <<>> /\ Head(conn[k].down).part = "head"
    /\ conn' = [conn EXCEPT ![k].down = Tail(@)]
    /\ answer' = [answer EXCEPT ![c] = [of |-> Head(conn[k].down).of,
                                       sound |-> ~conn[k].torn]]
    /\ pc' = [pc EXCEPT ![c] = "body"]
    /\ UNCHANGED <<clientVars, through, back, msg, using, lock, eirConn,
                   eirVars, phase>>

\* The rest of the message.
ReadBody(c) ==
    LET k == using[c] IN
    /\ pc[c] = "body"
    /\ conn[k].state \in {"open", "ended"}
    /\ conn[k].down # <<>>
    /\ Head(conn[k].down) = [of |-> answer[c].of, part |-> "body"]
    /\ conn' = [conn EXCEPT ![k].down = Tail(@)]
    /\ answer' = [answer EXCEPT ![c].sound = @ /\ ~conn[k].torn]
    /\ using' = [using EXCEPT ![c] = 0]
    /\ pc' = [pc EXCEPT ![c] = "reply"]
    /\ UNCHANGED <<clientVars, through, back, msg, lock, eirConn, eirVars,
                   phase>>

\* Neither of these: the bytes the goroutine wants are not the next ones, or
\* another goroutine reads too and each gets some.  Off the boundaries a length
\* is read that is invalid, or one that some of the following bytes satisfy, or
\* more than is there; what the others find next may be a boundary again.
ReadAstray(c) ==
    LET k == using[c] IN
    /\ pc[c] \in {"head", "body"}
    /\ conn[k].state \in {"open", "ended"}
    /\ conn[k].down # <<>>
    /\ \/ Reading(k) # {c}
       \/ pc[c] = "head" /\ Head(conn[k].down).part # "head"
       \/ pc[c] = "body" /\ Head(conn[k].down) # [of |-> answer[c].of, part |-> "body"]
    /\ \E d \in Remainders(conn[k].down) :
          /\ conn' = [conn EXCEPT ![k].down = d]
          /\ \/ /\ pc[c] = "head" \/ d = <<>>
                /\ pc' = [pc EXCEPT ![c] = "body"]
                /\ answer' = [answer EXCEPT ![c] = NoAnswer]
                /\ UNCHANGED <<msg, using>>
             \/ /\ pc' = [pc EXCEPT ![c] = "reply"]
                /\ answer' = [answer EXCEPT ![c] = [of |-> Garbage,
                                                   sound |-> ~conn[k].torn]]
                /\ using' = [using EXCEPT ![c] = 0]
                /\ UNCHANGED msg
             \/ /\ pc[c] = "head" \/ answer[c].of = Garbage
                /\ GiveUp(c)
    /\ UNCHANGED <<clientVars, through, back, lock, eirConn, eirVars, phase>>

ReadFails(c) ==
    LET k == using[c] IN
    /\ pc[c] \in {"head", "body"}
    /\ \/ conn[k].state \in {"closed", "reset"}
       \/ conn[k].state = "ended" /\ conn[k].down = <<>>
    /\ GiveUp(c)
    /\ UNCHANGED <<clientVars, through, back, lock, eirConn, conn, eirVars,
                   phase>>

-----------------------------------------------------------------------------
(* The EIR core *)

EIRAnswers(k) ==
    /\ conn[k].state = "open"
    /\ \E m \in conn[k].pending :
          conn' = [conn EXCEPT
                      ![k].pending = @ \ {m},
                      ![k].down = @ \o <<[of |-> m, part |-> "head"],
                                         [of |-> m, part |-> "body"]>>]
    /\ UNCHANGED <<clientVars, through, back, gatewayVars, eirVars, phase>>

\* Its connections end in order, or are reset and lose what was on the way.
EIRStops ==
    /\ eirUp
    /\ restarts < MaxRestarts
    /\ eirUp' = FALSE
    /\ \E how \in [Dialled -> {"ended", "reset"}] :
          conn' = [k \in Dialled |->
                     IF conn[k].state # "open" THEN conn[k]
                     ELSE [conn[k] EXCEPT
                             !.state = how[k], !.pending = {},
                             !.down = IF how[k] = "reset" THEN <<>> ELSE @]]
    /\ UNCHANGED <<clientVars, through, back, gatewayVars, restarts, phase>>

EIRStarts ==
    /\ ~eirUp
    /\ eirUp' = TRUE
    /\ restarts' = restarts + 1
    /\ UNCHANGED <<clientVars, through, back, gatewayVars, conn, phase>>

-----------------------------------------------------------------------------
(* Stop *)

\* No more connections are accepted, and the DRA's are closed.
StopDRA ==
    /\ phase = "running"
    /\ phase' = "stopping"
    /\ link' = [c \in Client |-> IF link[c] = "up" THEN "down" ELSE link[c]]
    /\ through' = [c \in Client |-> <<>>]
    /\ back' = [c \in Client |-> <<>>]
    /\ UNCHANGED <<received, sent, gatewayVars, conn, eirVars>>

\* Under the lock the connection to the EIR core is closed; main returns.
StopEIR ==
    /\ phase = "stopping"
    /\ lock = Nobody
    /\ phase' = "stopped"
    /\ conn' = [k \in Dialled |-> Closed]
    /\ eirConn' = 0
    /\ pc' = [c \in Client |-> "closed"]
    /\ using' = [c \in Client |-> 0]
    /\ msg' = [c \in Client |-> Nobody]
    /\ answer' = [c \in Client |-> NoAnswer]
    /\ through' = [c \in Client |-> <<>>]
    /\ UNCHANGED <<clientVars, back, lock, eirVars>>

-----------------------------------------------------------------------------

Probe(c) == ProbeTimeout(c) \/ ProbeByte(c) \/ ProbeEOF(c) \/ ProbeError(c)

Handle(c) ==
    \/ Read(c) \/ Reply(c) \/ End(c)
    \/ Lock(c) \/ Probe(c) \/ Dial(c) \/ DialFails(c)
    \/ Write(c) \/ ReadHead(c) \/ ReadBody(c) \/ ReadAstray(c) \/ ReadFails(c)

Next ==
    \/ \E c \in Client :
          \/ Connect(c) \/ Disconnect(c) \/ ForwardAnswer(c)
          \/ \E command \in Command : ForwardRequest(c, command)
          \/ Handle(c)
    \/ \E k \in Dialled : EIRAnswers(k)
    \/ EIRStops \/ EIRStarts
    \/ StopDRA \/ StopEIR

Spec == Init /\ [][Next]_vars

-----------------------------------------------------------------------------
(* Properties *)

TypeOK ==
    /\ link \in [Client -> {"new", "up", "down"}]
    /\ \A c \in Client :
          /\ through[c] \in Seq(Message)
          /\ back[c] \in Seq(Answer) /\ received[c] \in Seq(Answer)
          /\ pc[c] \in {"read", "lock", "probe", "dial", "write", "head", "body",
                        "reply", "closed"}
          /\ pc[c] \in {"write", "head", "body"} => using[c] \in Dialled
          /\ pc[c] \in {"probe", "dial"} <=> lock = c
          /\ msg[c] \in Message <=> pc[c] \notin {"read", "closed"}
          /\ answer[c] \in Answer
    /\ eirConn \in {0} \cup Dialled
    /\ conn \in Seq(Conn)
    /\ eirUp \in BOOLEAN
    /\ restarts \in 0..MaxRestarts
    /\ sent \in 0..MaxRequests
    /\ phase \in {"running", "stopping", "stopped"}

\* These of the answers the client has got are to its own requests, each at most
\* once and in their order.
InTurn(c, which) ==
    \A i \in which :
        LET got == received[c] IN
        /\ got[i].of # Garbage /\ got[i].of.client = c
        /\ \A j \in which : j < i => got[j].of.n < got[i].of.n

\* An answer read over a connection no test took a byte of is whole, and reaches
\* the client that asked, in turn: whatever goroutines shared that connection or
\* another before, and whatever the client got over a torn one.
SoundMatch ==
    \A c \in Client : InTurn(c, {i \in DOMAIN received[c] : received[c][i].sound})

\* Hop-by-hop through the entire chain: the same of all that is an answer at all.
\* The code does not keep it, as the run of this property shows.
AnswersMatch ==
    \A c \in Client :
        InTurn(c, {i \in DOMAIN received[c] : received[c][i].of # Garbage})

\* Two goroutines work with one open connection only when a test took a byte of
\* it: the test that hands it out keeps every other to a single goroutine.
SoundUnshared ==
    \A k \in Dialled :
        conn[k].state = "open" /\ ~conn[k].torn =>
            Cardinality({c \in Client : using[c] = k}) <= 1

\* Every other connection to the EIR core was closed: none leaks.
OneConnection == \A k \in Dialled : conn[k].state # "closed" => k = eirConn

\* Whoever holds the lock can go on, and no other client, request or answer is
\* needed for it: nobody waits for the lock for ever.
LockProgress ==
    \A c \in Client : lock = c => ENABLED (Probe(c) \/ Dial(c) \/ DialFails(c))

=============================================================================
