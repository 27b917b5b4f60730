----------------------- MODULE DiameterGatewayProofs -----------------------
(***************************************************************************)
(* Proofs about DiameterGateway, for any number of clients, requests and   *)
(* restarts of the EIR core.                                               *)
(***************************************************************************)
EXTENDS DiameterGateway, SequenceTheorems, FiniteSetTheorems, TLAPS

Pc == {"read", "lock", "probe", "dial", "write", "head", "body", "reply", "closed"}

\* What the network holds.
NetOK ==
    /\ link \in [Client -> {"new", "up", "down"}]
    /\ through \in [Client -> Seq(Message)]
    /\ back \in [Client -> Seq(Answer)]
    /\ received \in [Client -> Seq(Answer)]
    /\ sent \in 0..MaxRequests
    /\ eirUp \in BOOLEAN
    /\ restarts \in 0..MaxRestarts
    /\ ~eirUp => restarts < MaxRestarts
    /\ phase \in {"running", "stopping", "stopped"}

\* What the gateway's goroutines hold.
LocalsOK ==
    /\ pc \in [Client -> Pc]
    /\ msg \in [Client -> Message \cup {Nobody}]
    /\ using \in [Client -> Nat]
    /\ answer \in [Client -> Answer]

ConnOK == conn \in Seq(Conn) /\ eirConn \in 0..Len(conn)

\* A goroutine has a request while it works on it, a connection while it uses
\* it, and the lock while it tests or dials; with the lock it knows whether
\* there is a connection.
Local(c) ==
    /\ msg[c] \in Message <=> pc[c] \notin {"read", "closed"}
    /\ using[c] \in 0..Len(conn)
    /\ using[c] # 0 <=> pc[c] \in {"write", "head", "body"}
    /\ pc[c] \in {"probe", "dial"} <=> lock = c
    /\ pc[c] = "probe" => eirConn # 0
    /\ pc[c] = "dial" => eirConn = 0

TypeInv == NetOK /\ LocalsOK /\ ConnOK /\ \A c \in Client : Local(c)

LEMMA DialledLen == ConnOK => Dialled = 1..Len(conn) /\ Len(conn) \in Nat
BY LenProperties DEF ConnOK, Dialled

LEMMA TypeInvType == TypeInv => TypeOK
<1> SUFFICES ASSUME TypeInv PROVE TypeOK
  OBVIOUS
<1>1. Dialled = 1..Len(conn) /\ Len(conn) \in Nat
  BY DialledLen DEF TypeInv
<1>2. ASSUME NEW c \in Client
      PROVE  /\ through[c] \in Seq(Message)
             /\ back[c] \in Seq(Answer) /\ received[c] \in Seq(Answer)
             /\ pc[c] \in Pc /\ answer[c] \in Answer
  BY DEF TypeInv, NetOK, LocalsOK
<1>3. ASSUME NEW c \in Client
      PROVE  /\ pc[c] \in {"write", "head", "body"} => using[c] \in Dialled
             /\ pc[c] \in {"probe", "dial"} <=> lock = c
             /\ msg[c] \in Message <=> pc[c] \notin {"read", "closed"}
  BY <1>1 DEF TypeInv, Local
<1>4. eirConn \in {0} \cup Dialled /\ conn \in Seq(Conn)
  BY <1>1 DEF TypeInv, ConnOK
<1> QED
  BY <1>2, <1>3, <1>4 DEF TypeInv, TypeOK, NetOK, Pc

LEMMA FreshConn == Fresh \in Conn /\ Closed \in Conn /\ Closed.state = "closed"
                   /\ Fresh.state = "open" /\ ~Fresh.torn
<1>1. <<>> \in Seq(Piece)
  OBVIOUS
<1>2. Fresh \in Conn
  BY <1>1 DEF Fresh, Conn
<1> QED
  BY <1>2 DEF Fresh, Closed, Conn

LEMMA AnswerType ==
    /\ NoAnswer \in Answer
    /\ \A of \in Message \cup {Garbage}, b \in BOOLEAN :
          [of |-> of, sound |-> b] \in Answer
BY DEF NoAnswer, Answer

LEMMA InitTypeInv == Init => TypeInv
<1> SUFFICES ASSUME Init PROVE TypeInv
  OBVIOUS
<1>1. NetOK
  <2>1. sent \in 0..MaxRequests /\ restarts \in 0..MaxRestarts
    BY BoundAssumption DEF Init
  <2> QED
    BY <2>1 DEF Init, NetOK
<1>2. LocalsOK
  BY AnswerType DEF Init, LocalsOK, Pc
<1>3. ConnOK /\ Len(conn) = 0
  BY DEF Init, ConnOK
<1>4. \A c \in Client : Local(c)
  BY <1>3, NobodyAssumption DEF Init, Local
<1> QED
  BY <1>1, <1>2, <1>3, <1>4 DEF TypeInv

-----------------------------------------------------------------------------
(* Steps of one goroutine *)

\* No other goroutine's state changes, and lock and connection change only in
\* the hands of this one.
Moves(c) ==
    /\ \A d \in Client \ {c} : /\ pc'[d] = pc[d] /\ msg'[d] = msg[d]
                               /\ using'[d] = using[d] /\ answer'[d] = answer[d]
    /\ lock' = lock \/ {lock, lock'} = {Nobody, c}
    /\ eirConn' = eirConn \/ lock = c

LEMMA OneMoves ==
    ASSUME TypeInv, NEW c \in Client, Moves(c), Local(c)',
           ConnOK', Len(conn) <= Len(conn')
    PROVE  \A d \in Client : Local(d)'
<1>1. Len(conn) \in Nat /\ Len(conn') \in Nat
  BY DialledLen DEF TypeInv, ConnOK
<1> SUFFICES ASSUME NEW d \in Client \ {c} PROVE Local(d)'
  OBVIOUS
<1>2. pc'[d] = pc[d] /\ msg'[d] = msg[d] /\ using'[d] = using[d] /\ Local(d)
  BY DEF Moves, TypeInv
<1>3. lock' = d <=> lock = d
  BY NobodyAssumption DEF Moves
<1>4. pc[d] \in {"probe", "dial"} => eirConn' = eirConn
  BY <1>2 DEF Moves, Local
<1>5. using[d] \in 0..Len(conn')
  BY <1>1, <1>2 DEF Local
<1> QED
  BY <1>2, <1>3, <1>4, <1>5 DEF Local

LEMMA ConnExcept ==
    ASSUME ConnOK, NEW k \in Dialled, NEW r \in Conn,
           conn' = [conn EXCEPT ![k] = r]
    PROVE  /\ conn' \in Seq(Conn) /\ Len(conn') = Len(conn)
           /\ Dialled' = Dialled
           /\ \A j \in Dialled : conn'[j] = IF j = k THEN r ELSE conn[j]
<1>1. Dialled = 1..Len(conn)
  BY DialledLen
<1>2. /\ conn' \in Seq(Conn) /\ Len(conn') = Len(conn)
      /\ \A j \in 1..Len(conn) : conn'[j] = IF j = k THEN r ELSE conn[j]
  BY <1>1, ExceptSeq DEF ConnOK
<1>3. Dialled' = 1..Len(conn')
  BY <1>2, LenProperties DEF Dialled
<1> QED
  BY <1>1, <1>2, <1>3

LEMMA ConnAppend ==
    ASSUME ConnOK, NEW r \in Conn, conn' = Append(conn, r)
    PROVE  /\ conn' \in Seq(Conn) /\ Len(conn') = Len(conn) + 1
           /\ Dialled' = Dialled \cup {Len(conn')} /\ Len(conn') \notin Dialled
           /\ conn'[Len(conn')] = r
           /\ \A j \in Dialled : conn'[j] = conn[j]
<1>1. Dialled = 1..Len(conn) /\ Len(conn) \in Nat
  BY DialledLen
<1>2. /\ conn' \in Seq(Conn) /\ Len(conn') = Len(conn) + 1
      /\ conn'[Len(conn) + 1] = r
      /\ \A j \in 1..Len(conn) : conn'[j] = conn[j]
  BY AppendProperties DEF ConnOK
<1>3. Dialled' = 1..Len(conn')
  BY <1>2, LenProperties DEF Dialled
<1> QED
  BY <1>1, <1>2, <1>3

LEMMA NetQuiet ==
    ASSUME NetOK, UNCHANGED <<clientVars, through, back, eirVars, phase>>
    PROVE  NetOK'
BY DEF NetOK, clientVars, eirVars

\* Steps of the network alone.
LEMMA NetStep ==
    ASSUME TypeInv,
           \/ \E c \in Client :
                 \/ Connect(c) \/ Disconnect(c) \/ ForwardAnswer(c)
                 \/ \E command \in Command : ForwardRequest(c, command)
           \/ EIRStarts \/ StopDRA
    PROVE  NetOK' /\ UNCHANGED <<gatewayVars, conn>>
<1> USE DEF TypeInv
<1>1. ASSUME NEW c \in Client, Connect(c) \/ Disconnect(c) PROVE NetOK'
  <2>1. /\ link' \in [Client -> {"new", "up", "down"}]
        /\ back' \in [Client -> Seq(Answer)]
    <3>1. CASE Connect(c)
      BY <3>1 DEF Connect, NetOK
    <3>2. CASE Disconnect(c)
      <4>1. <<>> \in Seq(Answer)
        OBVIOUS
      <4> QED
        BY <3>2, <4>1 DEF Disconnect, NetOK
    <3> QED
      BY <1>1, <3>1, <3>2
  <2>2. UNCHANGED <<received, sent, through, eirUp, restarts, phase>>
    BY <1>1 DEF Connect, Disconnect, eirVars
  <2> QED
    BY <2>1, <2>2 DEF NetOK
<1>2. ASSUME NEW c \in Client, ForwardAnswer(c) PROVE NetOK'
  <2>1. back[c] \in Seq(Answer) /\ back[c] # <<>>
    BY <1>2 DEF ForwardAnswer, NetOK
  <2>2. Tail(back[c]) \in Seq(Answer) /\ Head(back[c]) \in Answer
    BY <2>1, HeadTailProperties
  <2>3. Append(received[c], Head(back[c])) \in Seq(Answer)
    BY <2>2, AppendProperties DEF NetOK
  <2>4. /\ back' \in [Client -> Seq(Answer)]
        /\ received' \in [Client -> Seq(Answer)]
    BY <1>2, <2>2, <2>3 DEF ForwardAnswer, NetOK
  <2> QED
    BY <1>2, <2>4 DEF ForwardAnswer, NetOK, eirVars
<1>3. ASSUME NEW c \in Client, NEW command \in Command, ForwardRequest(c, command)
      PROVE  NetOK'
  <2> DEFINE m == [client |-> c, n |-> sent', command |-> command]
  <2>1. sent' \in 1..MaxRequests
    BY <1>3, BoundAssumption DEF ForwardRequest, NetOK
  <2>2. m \in Message
    BY <2>1 DEF Message
  <2>3. Append(through[c], m) \in Seq(Message)
    BY <2>2, AppendProperties DEF NetOK
  <2>4. through' = [through EXCEPT ![c] = Append(through[c], m)]
    BY <1>3 DEF ForwardRequest
  <2> HIDE DEF m
  <2>5. through' \in [Client -> Seq(Message)]
    BY <2>3, <2>4 DEF NetOK
  <2> QED
    BY <1>3, <2>1, <2>5, BoundAssumption DEF ForwardRequest, NetOK, eirVars
<1>4. CASE EIRStarts
  <2>1. restarts \in 0..MaxRestarts /\ restarts < MaxRestarts
    BY <1>4 DEF EIRStarts, NetOK
  <2>2. restarts' \in 0..MaxRestarts
    BY <1>4, <2>1, BoundAssumption DEF EIRStarts
  <2>3. eirUp' = TRUE
    BY <1>4 DEF EIRStarts
  <2> QED
    BY <1>4, <2>2, <2>3 DEF EIRStarts, NetOK, clientVars
<1>5. CASE StopDRA
  <2>1. /\ through' \in [Client -> Seq(Message)]
        /\ back' \in [Client -> Seq(Answer)]
        /\ link' \in [Client -> {"new", "up", "down"}]
    BY <1>5 DEF StopDRA, NetOK
  <2> QED
    BY <1>5, <2>1 DEF StopDRA, NetOK, eirVars
<1>6. UNCHANGED <<gatewayVars, conn>>
  BY DEF Connect, Disconnect, ForwardAnswer, ForwardRequest, EIRStarts, StopDRA
<1> QED
  BY <1>1, <1>2, <1>3, <1>4, <1>5, <1>6

LEMMA LocalsQuiet ==
    ASSUME TypeInv, UNCHANGED <<gatewayVars, conn>>, NetOK'
    PROVE  TypeInv'
BY DEF TypeInv, LocalsOK, ConnOK, Local, gatewayVars

-----------------------------------------------------------------------------
(***************************************************************************)
(* A connection only gets worse: from open to one of the ends, from sound  *)
(* to torn.  So a goroutine that gives its connection up, and nothing      *)
(* else, keeps what GateInv says below.                                    *)
(***************************************************************************)
Worse(r, q) ==
    /\ r.state = "open" => q.state = "open"
    /\ q.torn => r.torn \/ r.state # "open"
    /\ q.state = "closed" <=> r.state = "closed"

Worsens ==
    /\ Dialled' = Dialled /\ eirConn' = eirConn
    /\ \A k \in Dialled : Worse(conn'[k], conn[k])
    /\ \A c \in Client : using'[c] \in {using[c], 0}

LEMMA WorseExcept ==
    ASSUME ConnOK, NEW k \in Dialled, NEW r \in Conn, Worse(r, conn[k]),
           conn' = [conn EXCEPT ![k] = r], eirConn' = eirConn,
           \A c \in Client : using'[c] \in {using[c], 0}
    PROVE  ConnOK' /\ Len(conn') = Len(conn) /\ Worsens
<1>1. /\ conn' \in Seq(Conn) /\ Len(conn') = Len(conn) /\ Dialled' = Dialled
      /\ \A j \in Dialled : conn'[j] = IF j = k THEN r ELSE conn[j]
  BY ConnExcept
<1>2. \A j \in Dialled : Worse(conn'[j], conn[j])
  BY <1>1 DEF Worse
<1> QED
  BY <1>1, <1>2 DEF ConnOK, Worsens

\* What is below a connection's number is one of its type.
LEMMA ConnType ==
    ASSUME ConnOK, NEW k \in Dialled
    PROVE  /\ conn[k] \in Conn
           /\ conn[k].state \in {"open", "ended", "reset", "closed"}
           /\ conn[k].pending \in SUBSET Message
           /\ conn[k].down \in Seq(Piece)
           /\ conn[k].torn \in BOOLEAN
<1>1. conn[k] \in Conn
  BY DialledLen, ElementOfSeq DEF ConnOK
<1> QED
  BY <1>1 DEF Conn

LEMMA ConnQuiet ==
    ASSUME ConnOK, UNCHANGED <<conn, eirConn>>,
           \A c \in Client : using'[c] \in {using[c], 0}
    PROVE  ConnOK' /\ Len(conn') = Len(conn) /\ Worsens
BY DEF ConnOK, Worsens, Worse, Dialled

LEMMA Others ==
    ASSUME LocalsOK, NEW c \in Client,
           pc' = pc \/ \E p : pc' = [pc EXCEPT ![c] = p],
           msg' = msg \/ \E m : msg' = [msg EXCEPT ![c] = m],
           using' = using \/ \E u : using' = [using EXCEPT ![c] = u],
           answer' = answer \/ \E a : answer' = [answer EXCEPT ![c] = a],
           lock' = lock \/ {lock, lock'} = {Nobody, c},
           eirConn' = eirConn \/ lock = c
    PROVE  Moves(c)
<1>1. \A d \in Client \ {c} : pc'[d] = pc[d]
  BY DEF LocalsOK
<1>2. \A d \in Client \ {c} : msg'[d] = msg[d]
  BY DEF LocalsOK
<1>3. \A d \in Client \ {c} : using'[d] = using[d]
  BY DEF LocalsOK
<1>4. \A d \in Client \ {c} : answer'[d] = answer[d]
  BY DEF LocalsOK
<1> QED
  BY <1>1, <1>2, <1>3, <1>4 DEF Moves

\* Steps of a goroutine that leave the connections alone.
LEMMA ReadStep ==
    ASSUME TypeInv, NEW c \in Client, Read(c)
    PROVE  TypeInv' /\ Worsens
<1> DEFINE m == Head(through[c])
<1>1. through[c] \in Seq(Message) /\ through[c] # <<>>
  BY DEF Read, TypeInv, NetOK
<1>2. m \in Message /\ Tail(through[c]) \in Seq(Message)
  BY <1>1, HeadTailProperties
<1> DEFINE a == IF m.command = "base" THEN [of |-> m, sound |-> TRUE] ELSE NoAnswer
<1>3. m.command \in {"base", "ECR", "other"} /\ a \in Answer
  BY <1>2, AnswerType DEF Message, Command
<1>4. NetOK'
  <2>1. through' \in [Client -> Seq(Message)]
    BY <1>2 DEF Read, TypeInv, NetOK
  <2> QED
    BY <2>1 DEF Read, TypeInv, NetOK, clientVars, eirVars
<1>5. /\ pc' = [pc EXCEPT ![c] = CASE m.command = "base" -> "reply"
                                   [] m.command = "ECR" -> "lock"
                                   [] OTHER -> "read"]
      /\ msg' = [msg EXCEPT ![c] = IF m.command = "other" THEN Nobody ELSE m]
      /\ answer' = [answer EXCEPT ![c] = a]
      /\ UNCHANGED <<using, lock, eirConn, conn>> /\ pc[c] = "read"
  BY DEF Read
<1> HIDE DEF m, a
<1>6. LocalsOK'
  BY <1>2, <1>3, <1>5 DEF TypeInv, LocalsOK, Pc
<1>7. /\ pc'[c] = CASE m.command = "base" -> "reply"
                    [] m.command = "ECR" -> "lock"
                    [] OTHER -> "read"
      /\ msg'[c] = IF m.command = "other" THEN Nobody ELSE m
  BY <1>5 DEF TypeInv, LocalsOK
<1>8. Local(c)'
  BY <1>2, <1>3, <1>5, <1>7, NobodyAssumption DEF TypeInv, Local
<1>9. Moves(c) /\ ConnOK' /\ Len(conn') = Len(conn)
  <2>1. LocalsOK /\ ConnOK
    BY DEF TypeInv
  <2>2. Moves(c)
    BY <1>5, <2>1, Others
  <2>3. ConnOK' /\ Len(conn') = Len(conn)
    BY <1>5, <2>1, ConnQuiet
  <2> QED
    BY <2>2, <2>3
<1>10. Worsens
  BY <1>5, ConnQuiet DEF TypeInv
<1> QED
  BY <1>4, <1>6, <1>8, <1>9, <1>10, OneMoves, DialledLen DEF TypeInv

LEMMA ReplyStep ==
    ASSUME TypeInv, NEW c \in Client, Reply(c)
    PROVE  TypeInv' /\ Worsens
<1>1. answer[c] \in Answer /\ back[c] \in Seq(Answer)
  BY DEF TypeInv, LocalsOK, NetOK
<1>2. Append(back[c], answer[c]) \in Seq(Answer)
  BY <1>1, AppendProperties
<1>3. back' \in [Client -> Seq(Answer)]
  BY <1>2 DEF Reply, TypeInv, NetOK
<1>4. NetOK'
  BY <1>3 DEF Reply, TypeInv, NetOK, clientVars, eirVars
<1>5. PICK next \in {"read", "closed"} : pc' = [pc EXCEPT ![c] = next]
  BY DEF Reply
<1>6. LocalsOK'
  BY <1>5, AnswerType DEF Reply, TypeInv, LocalsOK, Pc
<1>7. Local(c)'
  BY <1>5, NobodyAssumption DEF Reply, TypeInv, LocalsOK, Local
<1>8. Moves(c) /\ ConnOK' /\ Len(conn') = Len(conn)
  <2>1. Moves(c)
    BY <1>5, Others DEF Reply, TypeInv
  <2> QED
    BY <2>1, ConnQuiet DEF Reply, TypeInv
<1>9. Worsens
  BY ConnQuiet DEF Reply, TypeInv
<1> QED
  BY <1>4, <1>6, <1>7, <1>8, <1>9, OneMoves, DialledLen DEF TypeInv

LEMMA EndStep ==
    ASSUME TypeInv, NEW c \in Client, End(c)
    PROVE  TypeInv' /\ Worsens
<1>1. NetOK'
  BY NetQuiet DEF End, TypeInv
<1>2. LocalsOK' /\ pc'[c] = "closed"
  BY DEF End, TypeInv, LocalsOK, Pc
<1>3. Local(c)'
  BY <1>2 DEF End, TypeInv, LocalsOK, Local
<1>4. Moves(c) /\ ConnOK' /\ Len(conn') = Len(conn)
  <2>1. Moves(c)
    <3>1. LocalsOK /\ UNCHANGED <<msg, using, answer, lock, eirConn>>
      BY DEF End, TypeInv
    <3>2. \E p : pc' = [pc EXCEPT ![c] = p]
      BY DEF End
    <3> QED
      BY <3>1, <3>2, Others
  <2> QED
    BY <2>1, ConnQuiet DEF End, TypeInv
<1>5. Worsens
  BY ConnQuiet DEF End, TypeInv
<1> QED
  BY <1>1, <1>2, <1>3, <1>4, <1>5, OneMoves, DialledLen DEF TypeInv

LEMMA LockStep ==
    ASSUME TypeInv, NEW c \in Client, Lock(c)
    PROVE  TypeInv' /\ Worsens
<1>1. NetOK'
  BY NetQuiet DEF Lock, TypeInv
<1>2. /\ LocalsOK'
      /\ pc'[c] = IF eirConn = 0 THEN "dial" ELSE "probe"
  BY DEF Lock, TypeInv, LocalsOK, Pc
<1>3. Local(c)'
  BY <1>2 DEF Lock, TypeInv, LocalsOK, Local
<1>4. Moves(c) /\ ConnOK' /\ Len(conn') = Len(conn)
  <2>1. Moves(c)
    BY Others DEF Lock, TypeInv
  <2> QED
    BY <2>1, ConnQuiet DEF Lock, TypeInv
<1>5. Worsens
  BY ConnQuiet DEF Lock, TypeInv
<1> QED
  BY <1>1, <1>2, <1>3, <1>4, <1>5, OneMoves, DialledLen DEF TypeInv

\* GiveUp, with the lock or without it.
LEMMA GiveUpStep ==
    ASSUME TypeInv, NEW c \in Client, GiveUp(c),
           lock' = IF lock = c THEN Nobody ELSE lock,
           NetOK', ConnOK', Len(conn') = Len(conn), eirConn' = eirConn
    PROVE  TypeInv' /\ \A d \in Client : using'[d] \in {using[d], 0}
<1>1. LocalsOK' /\ pc'[c] = "read" /\ using'[c] = 0 /\ msg'[c] = Nobody
  BY AnswerType DEF GiveUp, TypeInv, LocalsOK, Pc
<1>2. lock' # c
  BY NobodyAssumption
<1>3. Len(conn) \in Nat
  BY DialledLen DEF TypeInv
<1>4. Local(c)'
  BY <1>1, <1>2, <1>3, NobodyAssumption DEF Local
<1>5. Moves(c)
  BY Others DEF GiveUp, TypeInv
<1>6. \A d \in Client : using'[d] \in {using[d], 0}
  BY <1>1, <1>5 DEF Moves
<1> QED
  BY <1>1, <1>3, <1>4, <1>5, <1>6, OneMoves DEF TypeInv

LEMMA FailsStep ==
    ASSUME TypeInv, NEW c \in Client, DialFails(c) \/ ReadFails(c)
    PROVE  TypeInv' /\ Worsens
<1>1. NetOK'
  BY NetQuiet DEF DialFails, ReadFails, TypeInv
<1>2. UNCHANGED <<conn, eirConn>> /\ GiveUp(c)
  BY DEF DialFails, ReadFails
<1>3. lock' = IF lock = c THEN Nobody ELSE lock
  <2>1. Local(c)
    BY DEF TypeInv
  <2>2. CASE DialFails(c)
    BY <2>1, <2>2 DEF DialFails, Local
  <2>3. CASE ReadFails(c)
    BY <2>1, <2>3 DEF ReadFails, Local
  <2> QED
    BY <2>2, <2>3
<1>4. ConnOK' /\ Len(conn') = Len(conn)
  BY <1>2 DEF TypeInv, ConnOK
<1>5. TypeInv' /\ \A d \in Client : using'[d] \in {using[d], 0}
  BY <1>1, <1>2, <1>3, <1>4, GiveUpStep
<1> QED
  BY <1>2, <1>5, ConnQuiet DEF TypeInv

\* The connection of a goroutine that uses one.
LEMMA UsingDialled ==
    ASSUME TypeInv, NEW c \in Client, pc[c] \in {"write", "head", "body"}
    PROVE  using[c] \in Dialled /\ lock # c
BY DialledLen DEF TypeInv, Local

\* A goroutine that goes on with the connection it uses, which gets worse.
LEMMA UseStep ==
    ASSUME TypeInv, NEW c \in Client, NEW p \in {"head", "body"},
           pc[c] \in {"write", "head", "body"},
           pc' = [pc EXCEPT ![c] = p],
           NEW a \in Answer, answer' = answer \/ answer' = [answer EXCEPT ![c] = a],
           NetOK', ConnOK', Len(conn') = Len(conn),
           UNCHANGED <<msg, using, lock, eirConn>>
    PROVE  TypeInv'
<1>1. LocalsOK' /\ pc'[c] = p
  BY DEF TypeInv, LocalsOK, Pc
<1>2. Local(c)
  BY DEF TypeInv
<1>3. Local(c)'
  BY <1>1, <1>2 DEF Local
<1>4. Moves(c)
  BY Others DEF TypeInv
<1> QED
  BY <1>1, <1>3, <1>4, OneMoves, DialledLen DEF TypeInv

LEMMA WriteStep ==
    ASSUME TypeInv, NEW c \in Client, Write(c)
    PROVE  TypeInv' /\ Worsens
<1> DEFINE k == using[c]
           r == [conn[k] EXCEPT !.pending = @ \cup {msg[c]}]
<1>1. NetOK' /\ UNCHANGED <<lock, eirConn>> /\ pc[c] = "write"
  BY NetQuiet DEF Write, TypeInv
<1>2. k \in Dialled /\ lock # c /\ msg[c] \in Message
  BY <1>1, UsingDialled DEF TypeInv, Local
<1>3. r \in Conn /\ Worse(r, conn[k])
  BY <1>2, ConnType DEF TypeInv, Conn, Worse
<1>4. CASE /\ conn' = [conn EXCEPT ![k] = r]
           /\ pc' = [pc EXCEPT ![c] = "head"]
           /\ UNCHANGED <<msg, answer, using>>
  <2> HIDE DEF r, k
  <2>1. ConnOK' /\ Len(conn') = Len(conn) /\ Worsens
    BY <1>1, <1>2, <1>3, <1>4, WorseExcept DEF TypeInv
  <2> QED
    BY <1>1, <1>4, <2>1, AnswerType, UseStep
<1>5. CASE /\ pc' = [pc EXCEPT ![c] = "head"]
           /\ UNCHANGED <<msg, answer, using, conn>>
  <2>1. ConnOK' /\ Len(conn') = Len(conn) /\ Worsens
    BY <1>1, <1>5, ConnQuiet DEF TypeInv
  <2> QED
    BY <1>1, <1>5, <2>1, AnswerType, UseStep
<1>6. CASE GiveUp(c) /\ UNCHANGED conn
  <2>1. ConnOK' /\ Len(conn') = Len(conn)
    BY <1>1, <1>6 DEF TypeInv, ConnOK
  <2>2. TypeInv' /\ \A d \in Client : using'[d] \in {using[d], 0}
    BY <1>1, <1>2, <1>6, <2>1, GiveUpStep
  <2> QED
    BY <1>1, <1>6, <2>2, ConnQuiet DEF TypeInv
<1> QED
  BY <1>4, <1>5, <1>6 DEF Write

LEMMA ReadHeadStep ==
    ASSUME TypeInv, NEW c \in Client, ReadHead(c)
    PROVE  TypeInv' /\ Worsens
<1> DEFINE k == using[c]
           first == Head(conn[k].down)
           r == [conn[k] EXCEPT !.down = Tail(@)]
           a == [of |-> first.of, sound |-> ~conn[k].torn]
<1>1. NetOK' /\ UNCHANGED <<msg, using, lock, eirConn>> /\ pc[c] = "head"
  BY NetQuiet DEF ReadHead, TypeInv
<1>2. k \in Dialled /\ conn[k] \in Conn /\ conn[k].down \in Seq(Piece)
      /\ conn[k].down # <<>>
  BY <1>1, UsingDialled, ConnType DEF ReadHead, TypeInv
<1>3. first \in Piece /\ Tail(conn[k].down) \in Seq(Piece)
  BY <1>2, HeadTailProperties
<1>4. r \in Conn /\ Worse(r, conn[k]) /\ first.of \in Message
  BY <1>2, <1>3 DEF Conn, Worse, Piece
<1>5. a \in Answer
  BY <1>4, AnswerType
<1>6. /\ conn' = [conn EXCEPT ![k] = r]
      /\ answer' = [answer EXCEPT ![c] = a]
      /\ pc' = [pc EXCEPT ![c] = "body"]
  BY DEF ReadHead
<1> HIDE DEF r, k, first, a
<1>7. ConnOK' /\ Len(conn') = Len(conn) /\ Worsens
  BY <1>1, <1>2, <1>4, <1>6, WorseExcept DEF TypeInv
<1> QED
  BY <1>1, <1>5, <1>6, <1>7, UseStep

\* A goroutine that takes what it has read for the answer.
LEMMA AnswerStep ==
    ASSUME TypeInv, NEW c \in Client, NEW a \in Answer,
           pc[c] \in {"head", "body"},
           pc' = [pc EXCEPT ![c] = "reply"], using' = [using EXCEPT ![c] = 0],
           answer' = [answer EXCEPT ![c] = a], UNCHANGED <<msg, lock, eirConn>>,
           NetOK', ConnOK', Len(conn') = Len(conn)
    PROVE  TypeInv' /\ \A d \in Client : using'[d] \in {using[d], 0}
<1>1. LocalsOK' /\ pc'[c] = "reply" /\ using'[c] = 0
  BY DEF TypeInv, LocalsOK, Pc
<1>2. Local(c) /\ Len(conn) \in Nat
  BY DialledLen DEF TypeInv
<1>3. Local(c)'
  BY <1>1, <1>2 DEF Local
<1>4. Moves(c)
  BY Others DEF TypeInv
<1>5. \A d \in Client : using'[d] \in {using[d], 0}
  BY <1>1, <1>4 DEF Moves
<1> QED
  BY <1>1, <1>2, <1>3, <1>4, <1>5, OneMoves DEF TypeInv

LEMMA ReadBodyStep ==
    ASSUME TypeInv, NEW c \in Client, ReadBody(c)
    PROVE  TypeInv' /\ Worsens
<1> DEFINE k == using[c]
           r == [conn[k] EXCEPT !.down = Tail(@)]
           a == [answer[c] EXCEPT !.sound = @ /\ ~conn[k].torn]
<1>1. NetOK' /\ UNCHANGED <<msg, lock, eirConn>> /\ pc[c] = "body"
  BY NetQuiet DEF ReadBody, TypeInv
<1>2. k \in Dialled /\ conn[k] \in Conn /\ conn[k].down \in Seq(Piece)
      /\ conn[k].down # <<>>
  BY <1>1, UsingDialled, ConnType DEF ReadBody, TypeInv
<1>3. Tail(conn[k].down) \in Seq(Piece)
  BY <1>2, HeadTailProperties
<1>4. r \in Conn /\ Worse(r, conn[k])
  BY <1>2, <1>3 DEF Conn, Worse
<1>5. a \in Answer
  <2>1. answer[c] \in Answer
    BY DEF TypeInv, LocalsOK
  <2> QED
    BY <2>1 DEF Answer
<1>6. /\ conn' = [conn EXCEPT ![k] = r]
      /\ answer' = [answer EXCEPT ![c] = a]
      /\ using' = [using EXCEPT ![c] = 0]
      /\ pc' = [pc EXCEPT ![c] = "reply"]
  BY DEF ReadBody
<1> HIDE DEF k, r, a
<1>7. ConnOK' /\ Len(conn') = Len(conn)
  BY <1>2, <1>4, <1>6, ConnExcept, <1>1 DEF TypeInv, ConnOK
<1>8. TypeInv' /\ \A d \in Client : using'[d] \in {using[d], 0}
  BY <1>1, <1>5, <1>6, <1>7, AnswerStep
<1> QED
  BY <1>1, <1>2, <1>4, <1>6, <1>8, WorseExcept DEF TypeInv

\* What a read leaves is of the type of what was there.
LEMMA RemainderType ==
    ASSUME NEW down \in Seq(Piece)
    PROVE  /\ Remainders(down) \subseteq Seq(Piece)
           /\ down # <<>> => Shortened(down) \subseteq Seq(Piece)
<1>1. Len(down) \in Nat
  BY LenProperties
<1>2. \A p \in Piece : [p EXCEPT !.part = "rest"] \in Piece
  BY DEF Piece
<1>3. ASSUME NEW q \in Seq(Piece), q # <<>>
      PROVE  [q EXCEPT ![1].part = "rest"] \in Seq(Piece)
  <2>1. 1 \in 1..Len(q) /\ q[1] \in Piece
    BY <1>3, EmptySeq, LenProperties, ElementOfSeq
  <2>2. [q EXCEPT ![1].part = "rest"]
           = [q EXCEPT ![1] = [q[1] EXCEPT !.part = "rest"]]
    OBVIOUS
  <2>3. [q[1] EXCEPT !.part = "rest"] \in Piece
    BY <1>2, <2>1
  <2> QED
    BY <2>1, <2>2, <2>3, ExceptSeq
<1>4. ASSUME NEW m \in 1..(Len(down) + 1)
      PROVE  /\ SubSeq(down, m, Len(down)) \in Seq(Piece)
             /\ m <= Len(down) => SubSeq(down, m, Len(down)) # <<>>
  <2>1. m \in Int /\ Len(down) \in Int /\ 1 <= m
    BY <1>1
  <2>2. \A i \in m..Len(down) : down[i] \in Piece
    BY <1>1, <2>1, ElementOfSeq
  <2>3. /\ SubSeq(down, m, Len(down)) \in Seq(Piece)
        /\ Len(SubSeq(down, m, Len(down)))
              = IF m <= Len(down) THEN Len(down) - m + 1 ELSE 0
    BY <2>1, <2>2, SubSeqProperties
  <2>4. m <= Len(down) => Len(SubSeq(down, m, Len(down))) # 0
    BY <2>1, <2>3
  <2>5. Len(<<>>) = 0
    OBVIOUS
  <2> QED
    BY <2>3, <2>4, <2>5
<1>5. ASSUME NEW n \in 1..Len(down)
      PROVE  /\ SubSeq(down, n + 1, Len(down)) \in Seq(Piece)
             /\ [SubSeq(down, n, Len(down)) EXCEPT ![1].part = "rest"] \in Seq(Piece)
  <2>1. n + 1 \in 1..(Len(down) + 1) /\ n \in 1..(Len(down) + 1) /\ n <= Len(down)
    BY <1>1
  <2>2. SubSeq(down, n + 1, Len(down)) \in Seq(Piece)
    BY <1>4, <2>1
  <2>3. /\ SubSeq(down, n, Len(down)) \in Seq(Piece)
        /\ SubSeq(down, n, Len(down)) # <<>>
    BY <1>4, <2>1
  <2> QED
    BY <1>3, <2>2, <2>3
<1>6. Remainders(down) \subseteq Seq(Piece)
  BY <1>5 DEF Remainders
<1>7. down # <<>> => Tail(down) \in Seq(Piece)
  BY HeadTailProperties
<1> QED
  BY <1>3, <1>6, <1>7 DEF Shortened

LEMMA ReadAstrayStep ==
    ASSUME TypeInv, NEW c \in Client, ReadAstray(c)
    PROVE  TypeInv' /\ Worsens
<1> DEFINE k == using[c]
<1>1. NetOK' /\ UNCHANGED <<lock, eirConn>> /\ pc[c] \in {"head", "body"}
  BY NetQuiet DEF ReadAstray, TypeInv
<1>2. k \in Dialled /\ conn[k] \in Conn /\ conn[k].down \in Seq(Piece) /\ lock # c
  BY <1>1, UsingDialled, ConnType DEF TypeInv
<1>3. PICK d \in Remainders(conn[k].down) :
          /\ conn' = [conn EXCEPT ![k].down = d]
          /\ \/ /\ pc' = [pc EXCEPT ![c] = "body"]
                /\ answer' = [answer EXCEPT ![c] = NoAnswer]
                /\ UNCHANGED <<msg, using>>
             \/ /\ pc' = [pc EXCEPT ![c] = "reply"]
                /\ answer' = [answer EXCEPT ![c] = [of |-> Garbage,
                                                   sound |-> ~conn[k].torn]]
                /\ using' = [using EXCEPT ![c] = 0]
                /\ UNCHANGED msg
             \/ GiveUp(c)
  BY DEF ReadAstray
<1> DEFINE r == [conn[k] EXCEPT !.down = d]
           a == [of |-> Garbage, sound |-> ~conn[k].torn]
<1>4. d \in Seq(Piece)
  BY <1>2, RemainderType
<1>5. r \in Conn /\ Worse(r, conn[k])
  BY <1>2, <1>4 DEF Conn, Worse
<1>6. conn' = [conn EXCEPT ![k] = r]
  BY <1>3
<1>7. a \in Answer /\ NoAnswer \in Answer
  BY AnswerType
<1> HIDE DEF r, k, a
<1>8. ConnOK' /\ Len(conn') = Len(conn)
  BY <1>1, <1>2, <1>5, <1>6, ConnExcept DEF TypeInv, ConnOK
<1>9. CASE /\ pc' = [pc EXCEPT ![c] = "body"]
           /\ answer' = [answer EXCEPT ![c] = NoAnswer]
           /\ UNCHANGED <<msg, using>>
  <2>1. TypeInv'
    BY <1>1, <1>7, <1>8, <1>9, UseStep
  <2> QED
    BY <1>1, <1>2, <1>5, <1>6, <1>9, <2>1, WorseExcept DEF TypeInv
<1>10. CASE /\ pc' = [pc EXCEPT ![c] = "reply"]
            /\ answer' = [answer EXCEPT ![c] = a]
            /\ using' = [using EXCEPT ![c] = 0]
            /\ UNCHANGED msg
  <2>1. TypeInv' /\ \A e \in Client : using'[e] \in {using[e], 0}
    BY <1>1, <1>7, <1>8, <1>10, AnswerStep
  <2> QED
    BY <1>1, <1>2, <1>5, <1>6, <2>1, WorseExcept DEF TypeInv
<1>11. CASE GiveUp(c)
  <2>1. TypeInv' /\ \A e \in Client : using'[e] \in {using[e], 0}
    BY <1>1, <1>2, <1>8, <1>11, GiveUpStep
  <2> QED
    BY <1>1, <1>2, <1>5, <1>6, <2>1, WorseExcept DEF TypeInv
<1> QED
  BY <1>3, <1>9, <1>10, <1>11 DEF a

\* The EIR core answers: the connection stays as good as it was.
LEMMA EIRAnswersStep ==
    ASSUME TypeInv, NEW k \in Dialled, EIRAnswers(k)
    PROVE  TypeInv' /\ Worsens
<1>1. NetOK' /\ UNCHANGED gatewayVars
  BY NetQuiet DEF EIRAnswers, TypeInv
<1>2. /\ conn[k] \in Conn /\ conn[k].down \in Seq(Piece)
      /\ conn[k].pending \in SUBSET Message
  BY ConnType DEF TypeInv
<1>3. PICK m \in conn[k].pending :
          conn' = [conn EXCEPT
                      ![k].pending = @ \ {m},
                      ![k].down = @ \o <<[of |-> m, part |-> "head"],
                                         [of |-> m, part |-> "body"]>>]
  BY DEF EIRAnswers
<1> DEFINE h == [of |-> m, part |-> "head"]
           b == [of |-> m, part |-> "body"]
           r == [conn[k] EXCEPT !.pending = @ \ {m}, !.down = @ \o <<h, b>>]
<1>4. h \in Piece /\ b \in Piece
  BY <1>2 DEF Piece
<1>5. <<h, b>> \in Seq(Piece)
  BY <1>4
<1>6. conn[k].down \o <<h, b>> \in Seq(Piece)
  BY <1>2, <1>5, ConcatProperties
<1>7. r \in Conn /\ Worse(r, conn[k])
  BY <1>2, <1>6 DEF Conn, Worse
<1>8. conn' = [conn EXCEPT ![k] = r]
  BY <1>3
<1> HIDE DEF r
<1>9. ConnOK' /\ Len(conn') = Len(conn) /\ Worsens
  BY <1>1, <1>7, <1>8, WorseExcept DEF TypeInv, gatewayVars
<1>10. LocalsOK' /\ \A c \in Client : Local(c)'
  BY <1>1, <1>9 DEF TypeInv, LocalsOK, Local, gatewayVars
<1> QED
  BY <1>1, <1>9, <1>10 DEF TypeInv

-----------------------------------------------------------------------------
(* Steps that touch every connection *)

LEMMA ConnAll ==
    ASSUME ConnOK, NEW f, f \in [Dialled -> Conn], conn' = f
    PROVE  conn' \in Seq(Conn) /\ Len(conn') = Len(conn) /\ Dialled' = Dialled
<1>1. Dialled = 1..Len(conn) /\ Len(conn) \in Nat
  BY DialledLen
<1>2. conn' \in Seq(Conn)
  BY <1>1, SeqDef
<1>3. Dialled' = 1..Len(conn') /\ Len(conn') \in Nat
  BY <1>2, LenProperties DEF Dialled
<1>4. Dialled' = Dialled
  BY DEF Dialled
<1> QED
  BY <1>1, <1>2, <1>3, <1>4

LEMMA EIRStopsStep ==
    ASSUME TypeInv, EIRStops
    PROVE  TypeInv' /\ Worsens
<1>1. PICK how \in [Dialled -> {"ended", "reset"}] :
          conn' = [k \in Dialled |->
                     IF conn[k].state # "open" THEN conn[k]
                     ELSE [conn[k] EXCEPT
                             !.state = how[k], !.pending = {},
                             !.down = IF how[k] = "reset" THEN <<>> ELSE @]]
  BY DEF EIRStops
<1>2. UNCHANGED gatewayVars
  BY DEF EIRStops
<1>3. NetOK'
  BY DEF EIRStops, TypeInv, NetOK, clientVars
<1>4. ASSUME NEW k \in Dialled
      PROVE  conn'[k] \in Conn /\ Worse(conn'[k], conn[k])
  <2>1. conn[k] \in Conn /\ conn[k].down \in Seq(Piece)
    BY ConnType DEF TypeInv
  <2>2. how[k] \in {"ended", "reset"}
    OBVIOUS
  <2>3. CASE conn[k].state # "open"
    BY <1>1, <2>1, <2>3 DEF Worse
  <2>4. CASE conn[k].state = "open"
    <3> DEFINE down == IF how[k] = "reset" THEN <<>> ELSE conn[k].down
    <3>1. down \in Seq(Piece)
      BY <2>1
    <3>2. conn'[k] = [conn[k] EXCEPT !.state = how[k], !.pending = {}, !.down = down]
      BY <1>1, <2>4
    <3> HIDE DEF down
    <3>3. conn'[k] \in Conn
      BY <2>1, <2>2, <3>1, <3>2 DEF Conn
    <3> QED
      BY <2>1, <2>2, <2>4, <3>2, <3>3 DEF Conn, Worse
  <2> QED
    BY <2>3, <2>4
<1>5. conn' \in [Dialled -> Conn]
  BY <1>1, <1>4
<1>6. conn' \in Seq(Conn) /\ Len(conn') = Len(conn) /\ Dialled' = Dialled
  BY <1>5, ConnAll DEF TypeInv
<1>7. Worsens
  BY <1>2, <1>4, <1>6 DEF Worsens, gatewayVars
<1>8. ConnOK' /\ LocalsOK' /\ \A c \in Client : Local(c)'
  BY <1>2, <1>6 DEF TypeInv, ConnOK, LocalsOK, Local, gatewayVars
<1> QED
  BY <1>3, <1>7, <1>8 DEF TypeInv

\* After Stop no goroutine works and every connection is closed.
LEMMA StopEIRStep ==
    ASSUME TypeInv, StopEIR
    PROVE  /\ TypeInv'
           /\ \A k \in Dialled' : conn'[k].state = "closed"
           /\ \A c \in Client : using'[c] = 0
<1>1. NetOK'
  <2>1. through' \in [Client -> Seq(Message)]
    BY DEF StopEIR
  <2> QED
    BY <2>1 DEF StopEIR, TypeInv, NetOK, clientVars, eirVars
<1>2. LocalsOK'
  BY AnswerType DEF StopEIR, LocalsOK, Pc
<1>3. conn' = [k \in Dialled |-> Closed] /\ conn' \in [Dialled -> Conn]
  BY FreshConn DEF StopEIR
<1>4. conn' \in Seq(Conn) /\ Len(conn') = Len(conn) /\ Dialled' = Dialled
  BY <1>3, ConnAll DEF TypeInv
<1>5. ConnOK' /\ Len(conn') \in Nat
  BY <1>4, DialledLen DEF ConnOK, TypeInv, StopEIR
<1>6. ASSUME NEW c \in Client PROVE Local(c)'
  <2>1. /\ pc'[c] = "closed" /\ msg'[c] = Nobody /\ using'[c] = 0
        /\ lock' = Nobody /\ eirConn' = 0
    BY DEF StopEIR
  <2> QED
    BY <1>5, <2>1, NobodyAssumption DEF Local
<1>7. \A k \in Dialled' : conn'[k].state = "closed"
  BY <1>3, <1>4, FreshConn
<1>8. \A c \in Client : using'[c] = 0
  BY DEF StopEIR
<1> QED
  BY <1>1, <1>2, <1>5, <1>6, <1>7, <1>8 DEF TypeInv

-----------------------------------------------------------------------------
(* Steps that test, close and make connections *)

\* A goroutine that tests the connection knows there is one.
LEMMA ProbeDialled ==
    ASSUME TypeInv, NEW c \in Client, pc[c] = "probe"
    PROVE  eirConn \in Dialled /\ lock = c /\ using[c] = 0
<1>1. Local(c) /\ ConnOK
  BY DEF TypeInv
<1> QED
  BY <1>1, DialledLen DEF Local, ConnOK

LEMMA AliveStep ==
    ASSUME TypeInv, NEW c \in Client, pc[c] = "probe", Alive(c),
           ConnOK', Len(conn') = Len(conn)
    PROVE  TypeInv'
<1>1. NetOK' /\ UNCHANGED <<msg, answer, eirConn>>
  BY NetQuiet DEF Alive, TypeInv
<1>2. /\ eirConn \in 0..Len(conn) /\ Len(conn) \in Nat
      /\ lock = c /\ eirConn # 0 /\ Local(c)
  BY DialledLen DEF TypeInv, ConnOK, Local
<1>3. LocalsOK' /\ pc'[c] = "write" /\ using'[c] = eirConn /\ lock' = Nobody
  BY <1>1, <1>2 DEF Alive, TypeInv, LocalsOK, Pc
<1>4. Local(c)'
  BY <1>1, <1>2, <1>3, NobodyAssumption DEF Local
<1>5. Moves(c)
  <2>1. {lock, lock'} = {Nobody, c}
    BY <1>2, <1>3
  <2> QED
    BY <1>1, <2>1, Others DEF Alive, TypeInv
<1> QED
  BY <1>1, <1>2, <1>3, <1>4, <1>5, OneMoves DEF TypeInv

LEMMA DeadStep ==
    ASSUME TypeInv, NEW c \in Client, pc[c] = "probe", Dead(c)
    PROVE  /\ TypeInv' /\ Dialled' = Dialled /\ using' = using
           /\ \A k \in Dialled : conn'[k] = IF k = eirConn THEN Closed ELSE conn[k]
<1>1. NetOK' /\ UNCHANGED <<msg, using, answer, lock>>
  BY NetQuiet DEF Dead, TypeInv
<1>2. eirConn \in Dialled /\ lock = c /\ Local(c)
  BY ProbeDialled DEF TypeInv
<1>3. /\ conn' \in Seq(Conn) /\ Len(conn') = Len(conn) /\ Dialled' = Dialled
      /\ \A k \in Dialled : conn'[k] = IF k = eirConn THEN Closed ELSE conn[k]
  <2>1. conn' = [conn EXCEPT ![eirConn] = Closed]
    BY DEF Dead
  <2> QED
    BY <1>2, <2>1, FreshConn, ConnExcept DEF TypeInv
<1>4. ConnOK' /\ eirConn' = 0
  BY <1>3, DialledLen DEF Dead, ConnOK, TypeInv
<1>5. LocalsOK' /\ pc'[c] = "dial"
  BY <1>1 DEF Dead, TypeInv, LocalsOK, Pc
<1>6. Local(c)'
  BY <1>1, <1>2, <1>3, <1>4, <1>5 DEF Local
<1>7. Moves(c)
  BY <1>1, <1>2, Others DEF Dead, TypeInv
<1>8. \A d \in Client : Local(d)'
  BY <1>3, <1>4, <1>6, <1>7, OneMoves, DialledLen DEF TypeInv
<1> QED
  BY <1>1, <1>3, <1>4, <1>5, <1>8 DEF TypeInv

LEMMA DialStep ==
    ASSUME TypeInv, NEW c \in Client, Dial(c)
    PROVE  /\ TypeInv' /\ Len(conn') \notin Dialled /\ eirConn = 0
           /\ Dialled' = Dialled \cup {Len(conn')} /\ eirConn' = Len(conn')
           /\ \A k \in Dialled : conn'[k] = conn[k]
           /\ \A d \in Client : using'[d] = IF d = c THEN eirConn' ELSE using[d]
<1>1. NetOK' /\ UNCHANGED <<msg, answer>> /\ pc[c] = "dial"
  BY NetQuiet DEF Dial, TypeInv
<1>2. lock = c /\ eirConn = 0 /\ Local(c) /\ Len(conn) \in Nat
  BY <1>1, DialledLen DEF TypeInv, Local
<1>3. /\ conn' \in Seq(Conn) /\ Len(conn') = Len(conn) + 1
      /\ Dialled' = Dialled \cup {Len(conn')} /\ Len(conn') \notin Dialled
      /\ \A k \in Dialled : conn'[k] = conn[k]
  <2>1. conn' = Append(conn, Fresh)
    BY DEF Dial
  <2> QED
    BY <2>1, FreshConn, ConnAppend DEF TypeInv
<1>4. ConnOK' /\ eirConn' = Len(conn') /\ Len(conn') \in Nat \ {0}
  BY <1>2, <1>3 DEF Dial, ConnOK
<1>5. LocalsOK' /\ pc'[c] = "write" /\ using'[c] = Len(conn') /\ lock' = Nobody
  BY <1>1, <1>4 DEF Dial, TypeInv, LocalsOK, Pc
<1>6. Local(c)'
  BY <1>1, <1>2, <1>4, <1>5, NobodyAssumption DEF Local
<1>7. Moves(c)
  <2>1. {lock, lock'} = {Nobody, c}
    BY <1>2, <1>5
  <2> QED
    BY <1>1, <1>2, <2>1, Others DEF Dial, TypeInv
<1>8. \A d \in Client : Local(d)'
  BY <1>2, <1>3, <1>4, <1>6, <1>7, OneMoves
<1>9. \A d \in Client : using'[d] = IF d = c THEN eirConn' ELSE using[d]
  BY <1>4, <1>5, <1>7 DEF Moves
<1> QED
  BY <1>1, <1>2, <1>3, <1>4, <1>5, <1>8, <1>9 DEF TypeInv

-----------------------------------------------------------------------------
(***************************************************************************)
(* The test hands a connection out as alive when it has ended, or when a   *)
(* byte of it is lost by the test itself; it closes one on which nothing   *)
(* comes.  So whoever shares a connection shares such a one.               *)
(***************************************************************************)
Spoilt(k) == conn[k].state # "open" \/ conn[k].torn

GateInv ==
    /\ OneConnection
    /\ eirConn # 0 => conn[eirConn].state # "closed"
    /\ \A c, d \in Client :
          c # d /\ using[c] = using[d] /\ using[c] # 0 => Spoilt(using[c])

LEMMA GateWorsens ==
    ASSUME TypeInv, GateInv, Worsens
    PROVE  GateInv'
<1>1. OneConnection'
  BY DEF GateInv, OneConnection, Worsens, Worse
<1>2. ASSUME NEW c \in Client, NEW d \in Client,
             c # d, using'[c] = using'[d], using'[c] # 0
      PROVE  Spoilt(using[c])' /\ using'[c] = using[c]
  <2>1. using'[c] = using[c] /\ using'[d] = using[d]
    BY <1>2 DEF Worsens
  <2>2. using[c] \in Dialled
    BY <1>2, <2>1, DialledLen DEF TypeInv, Local
  <2>3. Spoilt(using[c])
    BY <1>2, <2>1 DEF GateInv
  <2> QED
    BY <2>1, <2>2, <2>3 DEF Spoilt, Worsens, Worse
<1>3. eirConn' # 0 => conn'[eirConn'].state # "closed"
  BY DialledLen DEF TypeInv, ConnOK, GateInv, Worsens, Worse
<1> QED
  BY <1>1, <1>2, <1>3 DEF GateInv, Spoilt

LEMMA ProbeStep ==
    ASSUME TypeInv, GateInv, NEW c \in Client, Probe(c)
    PROVE  TypeInv' /\ GateInv'
<1>1. pc[c] = "probe" /\ eirConn \in Dialled /\ using[c] = 0 /\ ConnOK
  BY ProbeDialled DEF Probe, ProbeTimeout, ProbeByte, ProbeEOF, ProbeError, TypeInv
<1>2. CASE Dead(c)
  <2>1. /\ TypeInv' /\ Dialled' = Dialled /\ using' = using
        /\ \A k \in Dialled : conn'[k] = IF k = eirConn THEN Closed ELSE conn[k]
    BY <1>1, <1>2, DeadStep
  <2>2. \A k \in Dialled : conn'[k].state = "closed"
    BY <2>1, FreshConn DEF GateInv, OneConnection
  <2>3. ASSUME NEW d \in Client, using'[d] # 0 PROVE using'[d] \in Dialled
    BY <2>1, <2>3, DialledLen DEF TypeInv, Local
  <2>4. eirConn' = 0
    BY <1>2 DEF Dead
  <2> QED
    BY <2>1, <2>2, <2>3, <2>4 DEF GateInv, OneConnection, Spoilt
<1>3. ASSUME Alive(c), ConnOK', Len(conn') = Len(conn), Dialled' = Dialled,
             \A k \in Dialled : Worse(conn'[k], conn[k]), Spoilt(eirConn)'
      PROVE  TypeInv' /\ GateInv'
  <2>1. TypeInv' /\ eirConn' = eirConn
    BY <1>1, <1>3, AliveStep DEF Alive
  <2>2. \A d \in Client : using'[d] = IF d = c THEN eirConn ELSE using[d]
    BY <1>3 DEF Alive, TypeInv, LocalsOK
  <2>3. OneConnection'
    BY <1>3, <2>1 DEF GateInv, OneConnection, Worse
  <2>4. ASSUME NEW d \in Client, NEW e \in Client,
               d # e, using'[d] = using'[e], using'[d] # 0
        PROVE  Spoilt(using[d])'
    <3>1. CASE using'[d] = eirConn
      BY <1>3, <2>1, <3>1 DEF Spoilt
    <3>2. CASE using'[d] # eirConn
      <4>1. using'[d] = using[d] /\ using'[e] = using[e]
        BY <2>2, <2>4, <3>2
      <4>2. using[d] \in Dialled
        BY <2>4, <4>1, DialledLen DEF TypeInv, Local
      <4>3. Spoilt(using[d])
        BY <2>4, <4>1 DEF GateInv
      <4> QED
        BY <1>3, <4>1, <4>2, <4>3 DEF Spoilt, Worse
    <3> QED
      BY <3>1, <3>2
  <2>5. eirConn' # 0 => conn'[eirConn'].state # "closed"
    BY <1>1, <1>3, <2>1 DEF GateInv, Worse
  <2> QED
    BY <2>1, <2>3, <2>4, <2>5 DEF GateInv, Spoilt
<1>4. CASE ProbeByte(c)
  <2>0. PICK d \in Shortened(conn[eirConn].down) :
           conn' = [conn EXCEPT ![eirConn].down = d, ![eirConn].torn = TRUE]
    BY <1>4 DEF ProbeByte
  <2> DEFINE r == [conn[eirConn] EXCEPT !.down = d, !.torn = TRUE]
  <2>1. conn[eirConn] \in Conn /\ d \in Seq(Piece)
    BY <1>1, <1>4, ConnType, RemainderType DEF ProbeByte
  <2>2. r \in Conn /\ Worse(r, conn[eirConn]) /\ r.torn
    BY <2>1 DEF Conn, Worse
  <2>3. conn' = [conn EXCEPT ![eirConn] = r] /\ Alive(c) /\ eirConn' = eirConn
    BY <1>1, <1>4, <2>0 DEF ProbeByte, Alive
  <2> HIDE DEF r
  <2>4. /\ conn' \in Seq(Conn) /\ Len(conn') = Len(conn) /\ Dialled' = Dialled
        /\ \A j \in Dialled : conn'[j] = IF j = eirConn THEN r ELSE conn[j]
    BY <1>1, <2>2, <2>3, ConnExcept
  <2>5. ConnOK' /\ Spoilt(eirConn)'
    BY <1>1, <2>2, <2>3, <2>4 DEF ConnOK, Spoilt
  <2>6. \A k \in Dialled : Worse(conn'[k], conn[k])
    BY <2>2, <2>4 DEF Worse
  <2> QED
    BY <1>3, <2>3, <2>4, <2>5, <2>6
<1>5. CASE ProbeEOF(c)
  <2>1. Alive(c) /\ UNCHANGED <<conn, eirConn>> /\ conn[eirConn].state = "ended"
    BY <1>5 DEF ProbeEOF, Alive
  <2>2. /\ ConnOK' /\ Len(conn') = Len(conn) /\ Dialled' = Dialled
        /\ \A k \in Dialled : Worse(conn'[k], conn[k])
    BY <1>1, <2>1 DEF ConnOK, Dialled, Worse
  <2>3. Spoilt(eirConn)'
    BY <2>1 DEF Spoilt
  <2> QED
    BY <1>3, <2>1, <2>2, <2>3
<1> QED
  BY <1>2, <1>4, <1>5 DEF Probe, ProbeTimeout, ProbeError

LEMMA DialGate ==
    ASSUME TypeInv, GateInv, NEW c \in Client, Dial(c)
    PROVE  TypeInv' /\ GateInv'
<1>1. /\ TypeInv' /\ Len(conn') \notin Dialled /\ eirConn = 0
      /\ Dialled' = Dialled \cup {Len(conn')} /\ eirConn' = Len(conn')
      /\ \A k \in Dialled : conn'[k] = conn[k]
      /\ \A d \in Client : using'[d] = IF d = c THEN eirConn' ELSE using[d]
  BY DialStep
<1>2. \A k \in Dialled : k # 0
  BY DialledLen DEF TypeInv
<1>3. OneConnection'
  BY <1>1, <1>2 DEF GateInv, OneConnection
<1>4. \A d \in Client : using[d] # 0 => using[d] \in Dialled
  BY DialledLen DEF TypeInv, Local
<1>5. ASSUME NEW d \in Client, NEW e \in Client,
             d # e, using'[d] = using'[e], using'[d] # 0
      PROVE  Spoilt(using[d])'
  <2>1. using[d] # Len(conn') /\ using[e] # Len(conn')
    <3>1. Len(conn') # 0
      <4>1. conn' \in Seq(Conn) /\ Len(conn') \in DOMAIN conn'
        BY <1>1 DEF TypeInv, ConnOK, Dialled
      <4> QED
        BY <4>1, LenProperties
    <3> QED
      BY <1>1, <1>4, <3>1
  <2>2. using'[d] = using[d] /\ using'[e] = using[e]
    BY <1>1, <1>5, <2>1
  <2>3. using[d] \in Dialled /\ Spoilt(using[d])
    BY <1>4, <1>5, <2>2 DEF GateInv
  <2> QED
    BY <1>1, <2>2, <2>3 DEF Spoilt
<1>6. conn'[eirConn'].state # "closed"
  BY <1>1, FreshConn, ConnAppend DEF Dial, TypeInv
<1> QED
  BY <1>1, <1>3, <1>5, <1>6 DEF GateInv, Spoilt

-----------------------------------------------------------------------------
(* Results about connections *)

\* Every step of a goroutine but the test and the dialling only worsens
\* connections.
LEMMA HandleStep ==
    ASSUME TypeInv, GateInv, NEW c \in Client, Handle(c)
    PROVE  TypeInv' /\ GateInv'
<1>1. CASE Probe(c) \/ Dial(c)
  BY <1>1, ProbeStep, DialGate
<1>2. CASE TypeInv' /\ Worsens
  BY <1>2, GateWorsens
<1>3. CASE Read(c) \/ Reply(c) \/ End(c) \/ Lock(c)
  BY <1>2, <1>3, ReadStep, ReplyStep, EndStep, LockStep
<1>4. CASE DialFails(c) \/ ReadFails(c) \/ Write(c)
  BY <1>2, <1>4, FailsStep, WriteStep
<1>5. CASE ReadHead(c) \/ ReadBody(c) \/ ReadAstray(c)
  BY <1>2, <1>5, ReadHeadStep, ReadBodyStep, ReadAstrayStep
<1> QED
  BY <1>1, <1>3, <1>4, <1>5 DEF Handle

LEMMA NextInv ==
    ASSUME TypeInv, GateInv, [Next]_vars
    PROVE  TypeInv' /\ GateInv'
<1>1. ASSUME UNCHANGED <<gatewayVars, conn>>, NetOK' PROVE TypeInv' /\ GateInv'
  <2>1. TypeInv'
    BY <1>1, LocalsQuiet
  <2> QED
    BY <1>1, <2>1 DEF GateInv, OneConnection, Spoilt, Dialled, gatewayVars
<1>2. ASSUME NEW c \in Client,
             \/ Connect(c) \/ Disconnect(c) \/ ForwardAnswer(c)
             \/ \E command \in Command : ForwardRequest(c, command)
      PROVE  TypeInv' /\ GateInv'
  BY <1>1, <1>2, NetStep
<1>3. CASE \E c \in Client : Handle(c)
  BY <1>3, HandleStep
<1>4. CASE \E k \in Dialled : EIRAnswers(k)
  BY <1>4, EIRAnswersStep, GateWorsens
<1>5. CASE EIRStops
  BY <1>5, EIRStopsStep, GateWorsens
<1>6. CASE EIRStarts \/ StopDRA
  BY <1>1, <1>6, NetStep
<1>7. CASE StopEIR
  <2>1. eirConn' = 0
    BY <1>7 DEF StopEIR
  <2> QED
    BY <1>7, <2>1, StopEIRStep DEF GateInv, OneConnection
<1>8. CASE UNCHANGED vars
  <2>1. NetOK'
    BY <1>8, NetQuiet DEF TypeInv, vars
  <2> QED
    BY <1>1, <1>8, <2>1 DEF vars
<1> QED
  BY <1>2, <1>3, <1>4, <1>5, <1>6, <1>7, <1>8 DEF Next

LEMMA InitGate == Init => GateInv
BY DEF Init, GateInv, OneConnection, Dialled

LEMMA Invariant == Spec => [](TypeInv /\ GateInv)
<1>1. Init => TypeInv /\ GateInv
  BY InitTypeInv, InitGate
<1>2. TypeInv /\ GateInv /\ [Next]_vars => (TypeInv /\ GateInv)'
  BY NextInv
<1> QED
  BY <1>1, <1>2, PTL DEF Spec

\* The state has its types: a goroutine of the gateway has a request and a
\* connection just when it needs them, and holds eirConnMutex just while it
\* tests the connection or dials.
THEOREM TypeCorrect == Spec => []TypeOK
BY Invariant, TypeInvType, PTL

\* getEIRConnection leaks no connection: each one dialled is closed unless it
\* is the gateway's present one, whatever fails in between.
THEOREM NoneLeaks == Spec => []OneConnection
<1>1. GateInv => OneConnection
  BY DEF GateInv
<1> QED
  BY <1>1, Invariant, PTL

\* Whom getEIRConnection gives a connection that is open and untorn has it for
\* itself: the answer on it is for nobody else.
THEOREM SoundAlone == Spec => []SoundUnshared
<1>1. TypeInv /\ GateInv => SoundUnshared
  <2> SUFFICES ASSUME TypeInv, GateInv, NEW k \in Dialled,
                      conn[k].state = "open", ~conn[k].torn
               PROVE  Cardinality({c \in Client : using[c] = k}) <= 1
    BY DEF SoundUnshared
  <2> DEFINE users == {c \in Client : using[c] = k}
  <2>1. k # 0
    BY DialledLen DEF TypeInv
  <2>2. \A c, d \in users : c = d
    BY <2>1 DEF GateInv, Spoilt
  <2>3. CASE users = {}
    BY <2>3, FS_EmptySet
  <2>4. ASSUME NEW c \in users PROVE Cardinality(users) <= 1
    <3>1. users = {c}
      BY <2>2, <2>4
    <3> QED
      BY <3>1, FS_Singleton
  <2> QED
    BY <2>3, <2>4
<1> QED
  BY <1>1, Invariant, PTL

HolderReady ==
    \A c \in Client : lock = c =>
        \/ pc[c] = "dial" /\ eirConn = 0
        \/ /\ pc[c] = "probe" /\ eirConn \in Dialled
           /\ conn[eirConn].state \in {"open", "ended", "reset"}

\* Whoever holds eirConnMutex can go on, whatever the clients and the EIR core
\* do: it dials, which succeeds or fails, or it tests a connection that is open
\* (silent or not), ended or reset, and not a closed one, for which the test
\* has no outcome.
THEOREM HolderGoesOn == Spec => []HolderReady
<1>1. TypeInv /\ GateInv => HolderReady
  <2> SUFFICES ASSUME TypeInv, GateInv, NEW c \in Client, lock = c
               PROVE  \/ pc[c] = "dial" /\ eirConn = 0
                      \/ /\ pc[c] = "probe" /\ eirConn \in Dialled
                         /\ conn[eirConn].state \in {"open", "ended", "reset"}
    BY DEF HolderReady
  <2>1. Local(c) /\ ConnOK
    BY DEF TypeInv
  <2>2. ASSUME pc[c] = "probe"
        PROVE  eirConn \in Dialled
               /\ conn[eirConn].state \in {"open", "ended", "reset"}
    BY <2>1, <2>2, ProbeDialled, ConnType DEF GateInv, Local
  <2> QED
    BY <2>1, <2>2 DEF Local
<1> QED
  BY <1>1, Invariant, PTL

-----------------------------------------------------------------------------
(***************************************************************************)
(* The order of answers.  The answers a client has got, those on the way   *)
(* to it, the request the gateway works on for it, and those on the way to *)
(* the gateway follow each other in the order in which they were sent, as  *)
(* far as they count.                                                      *)
(***************************************************************************)
Item == Message \cup Answer

\* A request counts, and an answer if it is sound.
Counts(x) == IF x \in Message THEN TRUE ELSE x.sound
Of(x) == IF x \in Message THEN x ELSE x.of

Rising(s) ==
    \A i, j \in 1..Len(s) :
        j < i /\ Counts(s[i]) /\ Counts(s[j]) => Of(s[j]).n < Of(s[i]).n

Before(s, t) ==
    \A i \in 1..Len(s), j \in 1..Len(t) :
        Counts(s[i]) /\ Counts(t[j]) => Of(s[i]).n < Of(t[j]).n

\* All are c's, and none has a number above n.
Own(s, c, n) ==
    \A i \in 1..Len(s) :
        Counts(s[i]) => /\ Of(s[i]) \in Message
                        /\ Of(s[i]).client = c /\ Of(s[i]).n <= n

\* Messages and answers have different fields.
LEMMA Apart ==
    ASSUME NEW a \in Answer
    PROVE  a \notin Message /\ Counts(a) = a.sound /\ Of(a) = a.of
<1>1. "sound" \in DOMAIN a
  BY DEF Answer
<1>2. \A m \in Message : "sound" \notin DOMAIN m
  BY DEF Message
<1> QED
  BY <1>1, <1>2 DEF Counts, Of

LEMMA AppendOrder ==
    ASSUME NEW s \in Seq(Item), NEW a \in Item, NEW t \in Seq(Item),
           NEW c, NEW n
    PROVE  /\ Rising(s) /\ Before(s, <<a>>) => Rising(Append(s, a))
           /\ Before(s, t) /\ Before(<<a>>, t) => Before(Append(s, a), t)
           /\ Before(t, s) /\ Before(t, <<a>>) => Before(t, Append(s, a))
           /\ Own(s, c, n) /\ Own(<<a>>, c, n) => Own(Append(s, a), c, n)
<1> DEFINE q == Append(s, a)
<1>1. Len(s) \in Nat /\ Len(t) \in Nat /\ Len(q) = Len(s) + 1
  BY LenProperties, AppendProperties
<1>2. \A i \in 1..Len(q) :
         \/ i \in 1..Len(s) /\ q[i] = s[i]
         \/ i = Len(s) + 1 /\ q[i] = a
  BY <1>1, AppendProperties
<1>3. Len(<<a>>) = 1 /\ <<a>>[1] = a
  OBVIOUS
<1> HIDE DEF q
<1>4. ASSUME Rising(s), Before(s, <<a>>) PROVE Rising(q)
  <2>1. \A i \in 1..Len(s) : Counts(s[i]) /\ Counts(a) => Of(s[i]).n < Of(a).n
    BY <1>3, <1>4 DEF Before
  <2> QED
    BY <1>1, <1>2, <1>4, <2>1 DEF Rising
<1>5. ASSUME Before(s, t), Before(<<a>>, t) PROVE Before(q, t)
  <2>1. \A j \in 1..Len(t) : Counts(t[j]) /\ Counts(a) => Of(a).n < Of(t[j]).n
    BY <1>3, <1>5 DEF Before
  <2> QED
    BY <1>2, <1>5, <2>1 DEF Before
<1>6. ASSUME Before(t, s), Before(t, <<a>>) PROVE Before(t, q)
  <2>1. \A j \in 1..Len(t) : Counts(t[j]) /\ Counts(a) => Of(t[j]).n < Of(a).n
    BY <1>3, <1>6 DEF Before
  <2> QED
    BY <1>2, <1>6, <2>1 DEF Before
<1>7. ASSUME Own(s, c, n), Own(<<a>>, c, n) PROVE Own(q, c, n)
  <2>1. Counts(a) => Of(a) \in Message /\ Of(a).client = c /\ Of(a).n <= n
    BY <1>3, <1>7 DEF Own
  <2> QED
    BY <1>2, <1>7, <2>1 DEF Own
<1> QED
  BY <1>4, <1>5, <1>6, <1>7 DEF q

LEMMA TailOrder ==
    ASSUME NEW s \in Seq(Item), s # <<>>, NEW t \in Seq(Item),
           NEW c, NEW n
    PROVE  /\ Rising(s) => Rising(Tail(s)) /\ Before(<<Head(s)>>, Tail(s))
           /\ Before(s, t) => Before(Tail(s), t) /\ Before(<<Head(s)>>, t)
           /\ Before(t, s) => Before(t, Tail(s)) /\ Before(t, <<Head(s)>>)
           /\ Own(s, c, n) => Own(Tail(s), c, n) /\ Own(<<Head(s)>>, c, n)
<1> DEFINE q == Tail(s)
           h == Head(s)
<1>1. Len(s) \in Nat \ {0} /\ Len(q) = Len(s) - 1
  BY EmptySeq, LenProperties, HeadTailProperties
<1>2. h = s[1] /\ 1 \in 1..Len(s)
  BY <1>1
<1>3. \A i \in 1..Len(q) : i + 1 \in 1..Len(s) /\ 1 < i + 1 /\ q[i] = s[i + 1]
  BY <1>1, HeadTailProperties
<1>4. Len(<<h>>) = 1 /\ <<h>>[1] = h
  OBVIOUS
<1>5. \A i \in 1..Len(<<h>>) : <<h>>[i] = s[1]
  BY <1>2, <1>4
<1> HIDE DEF q, h
<1>6. ASSUME Rising(s) PROVE Rising(q) /\ Before(<<h>>, q)
  <2>1. Before(<<h>>, q)
    BY <1>2, <1>3, <1>5, <1>6 DEF Rising, Before
  <2>2. \A i, j \in 1..Len(q) : j < i => j + 1 < i + 1
    BY <1>1
  <2>3. Rising(q)
    BY <1>3, <1>6, <2>2 DEF Rising
  <2> QED
    BY <2>1, <2>3
<1>7. ASSUME Before(s, t) PROVE Before(q, t) /\ Before(<<h>>, t)
  BY <1>2, <1>3, <1>5, <1>7 DEF Before
<1>8. ASSUME Before(t, s) PROVE Before(t, q) /\ Before(t, <<h>>)
  BY <1>2, <1>3, <1>5, <1>8 DEF Before
<1>9. ASSUME Own(s, c, n) PROVE Own(q, c, n) /\ Own(<<h>>, c, n)
  BY <1>2, <1>3, <1>5, <1>9 DEF Own
<1> QED
  BY <1>6, <1>7, <1>8, <1>9 DEF q, h

LEMMA EmptyOrder ==
    /\ Rising(<<>>)
    /\ \A t : Before(<<>>, t) /\ Before(t, <<>>)
    /\ \A c, n : Own(<<>>, c, n)
BY DEF Rising, Before, Own

Mine(c) == IF msg[c] = Nobody THEN <<>> ELSE <<msg[c]>>

Ordered(c) ==
    /\ Own(received[c], c, sent) /\ Own(back[c], c, sent)
    /\ Own(Mine(c), c, sent) /\ Own(through[c], c, sent)
    /\ Rising(received[c]) /\ Rising(back[c]) /\ Rising(through[c])
    /\ Before(received[c], back[c]) /\ Before(received[c], Mine(c))
    /\ Before(received[c], through[c]) /\ Before(back[c], Mine(c))
    /\ Before(back[c], through[c]) /\ Before(Mine(c), through[c])

\* What the goroutine has read is of the answer to its request, if it is sound.
Replies(c) ==
    pc[c] \in {"body", "reply"} /\ answer[c].sound => answer[c].of = msg[c]

OrderInv == \A c \in Client : Ordered(c) /\ Replies(c)

LEMMA LineTypes ==
    ASSUME TypeInv, NEW c \in Client
    PROVE  /\ received[c] \in Seq(Answer) /\ back[c] \in Seq(Answer)
           /\ received[c] \in Seq(Item) /\ back[c] \in Seq(Item)
           /\ through[c] \in Seq(Message) /\ through[c] \in Seq(Item)
           /\ Mine(c) \in Seq(Item) /\ sent \in Nat
<1>1. /\ through[c] \in Seq(Message) /\ Message \subseteq Item
      /\ received[c] \in Seq(Answer) /\ back[c] \in Seq(Answer)
      /\ Answer \subseteq Item
  BY DEF TypeInv, NetOK, Item
<1>2. through[c] \in Seq(Item)
  BY <1>1, SeqMonotonic
<1>3. received[c] \in Seq(Item) /\ back[c] \in Seq(Item)
  BY <1>1, SeqMonotonic
<1>4. <<>> \in Seq(Item)
  OBVIOUS
<1>5. msg[c] # Nobody => msg[c] \in Item
  BY <1>1 DEF TypeInv, LocalsOK
<1>6. Mine(c) \in Seq(Item)
  BY <1>4, <1>5 DEF Mine
<1>7. sent \in Nat
  BY BoundAssumption DEF TypeInv, NetOK
<1> QED
  BY <1>1, <1>2, <1>3, <1>6, <1>7

LEMMA Numbered ==
    ASSUME NEW s, NEW c, NEW n, Own(s, c, n)
    PROVE  \A i \in 1..Len(s) : Counts(s[i]) => Of(s[i]).n \in Nat
BY DEF Own, Message

LEMMA OwnMore ==
    ASSUME NEW s, NEW c, NEW n \in Nat, Own(s, c, n)
    PROVE  Own(s, c, n + 1)
<1>1. \A x \in Nat : x <= n => x <= n + 1
  OBVIOUS
<1> QED
  BY <1>1, Numbered DEF Own

\* Where messages are dropped the others stay in order.
LEMMA Fewer ==
    ASSUME TypeInv, NEW c \in Client, Ordered(c), sent' \in {sent, sent + 1},
           received'[c] = received[c],
           back'[c] = back[c] \/ back'[c] = <<>>,
           through'[c] = through[c] \/ through'[c] = <<>>,
           msg'[c] = msg[c] \/ msg'[c] = Nobody
    PROVE  Ordered(c)'
<1> DEFINE r == received[c]
           b == back'[c]
           m == Mine(c)'
           t == through'[c]
<1>0. \A s \in {r, back[c], Mine(c), through[c]} : Own(s, c, sent')
  <2>1. \A s \in {r, back[c], Mine(c), through[c]} : Own(s, c, sent)
    BY DEF Ordered
  <2> QED
    BY <2>1, OwnMore, LineTypes
<1>1. m = Mine(c) \/ m = <<>>
  BY DEF Mine
<1>2. Own(r, c, sent') /\ Rising(r)
  BY <1>0 DEF Ordered
<1>3. Own(b, c, sent') /\ Rising(b) /\ Before(r, b)
  BY <1>0, EmptyOrder DEF Ordered
<1>4. Own(m, c, sent') /\ Before(r, m) /\ Before(b, m)
  BY <1>0, <1>1, EmptyOrder DEF Ordered
<1>5. Own(t, c, sent') /\ Rising(t)
  BY <1>0, EmptyOrder DEF Ordered
<1>6. Before(r, t)
  BY EmptyOrder DEF Ordered
<1>7. Before(b, t)
  BY EmptyOrder DEF Ordered
<1>8. Before(m, t)
  BY <1>1, EmptyOrder DEF Ordered
<1> QED
  BY <1>2, <1>3, <1>4, <1>5, <1>6, <1>7, <1>8 DEF Ordered

LEMMA ForwardRequestOrder ==
    ASSUME TypeInv, NEW c \in Client, Ordered(c), NEW command \in Command,
           ForwardRequest(c, command)
    PROVE  Ordered(c)'
<1> DEFINE m == [client |-> c, n |-> sent', command |-> command]
           t == through[c]
           line == {received[c], back[c], Mine(c)}
<1>0. sent' = sent + 1 /\ sent \in Nat
  BY LineTypes DEF ForwardRequest
<1>1. sent' \in 1..MaxRequests
  BY <1>0, BoundAssumption DEF ForwardRequest, TypeInv, NetOK
<1>2. m \in Message /\ m \in Item
  BY <1>1 DEF Message, Item
<1>3. m.client = c /\ m.n = sent + 1
  BY <1>0
<1>4. UNCHANGED <<received, back, msg>> /\ through'[c] = Append(t, m)
  BY DEF ForwardRequest, TypeInv, NetOK, gatewayVars
<1> HIDE DEF m
<1>5. Len(<<m>>) = 1 /\ <<m>>[1] = m
  OBVIOUS
<1>6. ASSUME NEW s, Own(s, c, sent)
      PROVE  Own(s, c, sent') /\ Before(s, <<m>>)
  <2>1. Own(s, c, sent')
    BY <1>0, <1>6, OwnMore
  <2>2. \A x \in Nat : x <= sent => x < m.n
    BY <1>0, <1>3
  <2>3. \A i \in 1..Len(s) : Counts(s[i]) => Of(s[i]).n < m.n
    BY <1>6, <2>2, Numbered DEF Own
  <2>4. \A j \in 1..Len(<<m>>) : Of(<<m>>[j]) = m
    BY <1>2, <1>5 DEF Of
  <2> QED
    BY <2>1, <2>3, <2>4 DEF Before
<1>7. Own(<<m>>, c, sent')
  <2>1. sent' <= sent'
    BY <1>0
  <2>2. \A j \in 1..Len(<<m>>) : Of(<<m>>[j]) = m
    BY <1>2, <1>5 DEF Of
  <2> QED
    BY <1>0, <1>2, <1>3, <2>1, <2>2 DEF Own
<1>8. \A s \in {received[c], back[c], Mine(c), t} :
         s \in Seq(Item) /\ Own(s, c, sent') /\ Before(s, <<m>>)
  BY <1>6, LineTypes DEF Ordered
<1>9. Own(Append(t, m), c, sent') /\ Rising(Append(t, m))
  BY <1>2, <1>7, <1>8, AppendOrder DEF Ordered
<1>10. /\ Before(received[c], Append(t, m)) /\ Before(back[c], Append(t, m))
       /\ Before(Mine(c), Append(t, m))
  BY <1>2, <1>8, AppendOrder DEF Ordered
<1>11. Mine(c)' = Mine(c)
  BY <1>4 DEF Mine
<1> QED
  BY <1>4, <1>8, <1>9, <1>10, <1>11 DEF Ordered

LEMMA ForwardAnswerOrder ==
    ASSUME TypeInv, NEW c \in Client, Ordered(c), ForwardAnswer(c)
    PROVE  Ordered(c)'
<1> DEFINE b == back[c]
           a == Head(b)
           r == received[c]
<1>1. b \in Seq(Item) /\ b # <<>> /\ r \in Seq(Item) /\ a \in Item
      /\ Tail(b) \in Seq(Item)
  BY LineTypes, HeadTailProperties DEF ForwardAnswer
<1>2. /\ received'[c] = Append(r, a) /\ back'[c] = Tail(b)
      /\ UNCHANGED <<through, msg, sent>> /\ Mine(c)' = Mine(c)
  BY DEF ForwardAnswer, TypeInv, NetOK, gatewayVars, Mine
<1>3. through[c] \in Seq(Item) /\ Mine(c) \in Seq(Item)
  BY LineTypes
<1> HIDE DEF a
<1>4. /\ Own(<<a>>, c, sent) /\ Own(Tail(b), c, sent) /\ Rising(Tail(b))
      /\ Before(<<a>>, Tail(b)) /\ Before(r, Tail(b)) /\ Before(r, <<a>>)
  BY <1>1, TailOrder DEF Ordered, a
<1>5. \A t \in {Mine(c), through[c]} :
         Before(Tail(b), t) /\ Before(<<a>>, t) /\ Before(r, t)
  BY <1>1, <1>3, TailOrder DEF Ordered, a
<1>6. /\ Own(Append(r, a), c, sent) /\ Rising(Append(r, a))
      /\ Before(Append(r, a), Tail(b))
  BY <1>1, <1>4, AppendOrder DEF Ordered
<1>7. \A t \in {Mine(c), through[c]} : Before(Append(r, a), t)
  BY <1>1, <1>3, <1>5, AppendOrder
<1> QED
  BY <1>2, <1>4, <1>5, <1>6, <1>7 DEF Ordered

LEMMA ReadOrder ==
    ASSUME TypeInv, NEW c \in Client, Ordered(c), Read(c)
    PROVE  Ordered(c)' /\ Replies(c)'
<1> DEFINE t == through[c]
           m == Head(t)
<1>1. t \in Seq(Message) /\ t \in Seq(Item) /\ t # <<>> /\ m \in Message
      /\ Tail(t) \in Seq(Item)
  BY LineTypes, HeadTailProperties DEF Read
<1>2. /\ UNCHANGED <<received, back, sent>> /\ through'[c] = Tail(t)
      /\ msg'[c] = m \/ msg'[c] = Nobody
  BY DEF Read, TypeInv, NetOK, LocalsOK, clientVars
<1>3. received[c] \in Seq(Item) /\ back[c] \in Seq(Item)
  BY LineTypes
<1>4. Replies(c)'
  <2>1. msg'[c] = IF m.command = "other" THEN Nobody ELSE m
    BY DEF Read, TypeInv, LocalsOK
  <2>2. answer'[c] = IF m.command = "base" THEN [of |-> m, sound |-> TRUE]
                     ELSE NoAnswer
    BY DEF Read, TypeInv, LocalsOK
  <2>3. CASE m.command = "base"
    BY <2>1, <2>2, <2>3 DEF Replies
  <2>4. CASE m.command # "base"
    BY <2>2, <2>4 DEF Replies, NoAnswer
  <2> QED
    BY <2>3, <2>4
<1> HIDE DEF m
<1>5. Mine(c)' = <<m>> \/ Mine(c)' = <<>>
  BY <1>2 DEF Mine
<1>6. /\ Own(<<m>>, c, sent) /\ Own(Tail(t), c, sent) /\ Rising(Tail(t))
      /\ Before(<<m>>, Tail(t))
  BY <1>1, TailOrder DEF Ordered, m
<1>7. \A s \in {received[c], back[c]} : Before(s, Tail(t)) /\ Before(s, <<m>>)
  BY <1>1, <1>3, TailOrder DEF Ordered, m
<1>8. Own(Mine(c)', c, sent) /\ Before(Mine(c)', Tail(t))
  BY <1>5, <1>6, EmptyOrder
<1>9. Before(received[c], Mine(c)') /\ Before(back[c], Mine(c)')
  BY <1>5, <1>7, EmptyOrder
<1>10. Ordered(c)'
  BY <1>2, <1>6, <1>7, <1>8, <1>9 DEF Ordered
<1> QED
  BY <1>4, <1>10

LEMMA ReplyOrder ==
    ASSUME TypeInv, NEW c \in Client, Ordered(c), Replies(c), Reply(c)
    PROVE  Ordered(c)' /\ Replies(c)'
<1> DEFINE a == answer[c]
           b == back[c]
<1>1. /\ UNCHANGED <<received, through, sent>> /\ msg'[c] = Nobody
      /\ pc'[c] \notin {"body", "reply"} /\ pc[c] = "reply"
  BY DEF Reply, TypeInv, LocalsOK, clientVars
<1>2. Replies(c)'
  BY <1>1 DEF Replies
<1>3. msg[c] \in Message /\ Mine(c) = <<msg[c]>>
  BY <1>1, NobodyAssumption DEF TypeInv, Local, Mine
<1>4. /\ a \in Answer /\ a \in Item /\ (a.sound => a.of = msg[c])
      /\ Counts(a) = a.sound /\ Of(a) = a.of
  BY <1>1, Apart DEF Replies, TypeInv, LocalsOK, Item
<1>5. b \in Seq(Item) /\ through[c] \in Seq(Item) /\ received[c] \in Seq(Item)
  BY LineTypes
<1> HIDE DEF a
<1>6. /\ Own(<<a>>, c, sent) /\ Before(b, <<a>>)
      /\ Before(<<a>>, through[c]) /\ Before(received[c], <<a>>)
  <2>1. CASE a.sound
    <3>1. \A i \in 1..Len(<<a>>) : Of(<<a>>[i]) = msg[c]
      BY <1>4, <2>1
    <3>2. /\ Len(<<msg[c]>>) = 1 /\ <<msg[c]>>[1] = msg[c] /\ Len(<<a>>) = 1
          /\ Counts(msg[c]) /\ Of(msg[c]) = msg[c]
      BY <1>3 DEF Counts, Of
    <3>3. /\ Own(<<msg[c]>>, c, sent) /\ Before(b, <<msg[c]>>)
          /\ Before(<<msg[c]>>, through[c]) /\ Before(received[c], <<msg[c]>>)
      BY <1>3 DEF Ordered
    <3>4. Own(<<a>>, c, sent)
      BY <3>1, <3>2, <3>3 DEF Own
    <3>5. Before(b, <<a>>) /\ Before(received[c], <<a>>)
      BY <3>1, <3>2, <3>3 DEF Before
    <3>6. Before(<<a>>, through[c])
      BY <3>1, <3>2, <3>3 DEF Before
    <3> QED
      BY <3>4, <3>5, <3>6
  <2>2. CASE ~a.sound
    <3>1. \A i \in 1..Len(<<a>>) : ~Counts(<<a>>[i])
      BY <1>4, <2>2
    <3> QED
      BY <3>1 DEF Own, Before
  <2> QED
    BY <1>4, <2>1, <2>2
<1>7. /\ Own(Append(b, a), c, sent) /\ Rising(Append(b, a))
      /\ Before(Append(b, a), through[c]) /\ Before(received[c], Append(b, a))
  BY <1>4, <1>5, <1>6, AppendOrder DEF Ordered
<1>8. back'[c] = b \/ back'[c] = Append(b, a)
  BY DEF Reply, TypeInv, NetOK, a
<1>9. Mine(c)' = <<>>
  BY <1>1 DEF Mine
<1>10. Ordered(c)'
  <2>1. /\ Own(back'[c], c, sent) /\ Rising(back'[c])
        /\ Before(back'[c], through[c]) /\ Before(received[c], back'[c])
    BY <1>7, <1>8 DEF Ordered
  <2>2. /\ Own(Mine(c)', c, sent) /\ Before(received[c], Mine(c)')
        /\ Before(back'[c], Mine(c)') /\ Before(Mine(c)', through[c])
    BY <1>9, EmptyOrder
  <2> QED
    BY <1>1, <2>1, <2>2 DEF Ordered
<1> QED
  BY <1>2, <1>10

-----------------------------------------------------------------------------
(***************************************************************************)
(* What a connection holds.  On one that is not torn there is nothing but  *)
(* the request of the goroutine that uses it or the answer to that, or     *)
(* what is left of the answer.  On a torn one there may be anything.       *)
(***************************************************************************)
HeadOf(m) == [of |-> m, part |-> "head"]
BodyOf(m) == [of |-> m, part |-> "body"]

Empty(k) == conn[k].pending = {} /\ conn[k].down = <<>>

Settled(k) ==
    /\ conn[k].state # "open" => conn[k].pending = {}
    /\ conn[k].state \in {"reset", "closed"} => conn[k].down = <<>>

Awaits(c, k) ==
    \/ Empty(k)
    \/ pc[c] = "head" /\ conn[k].pending = {msg[c]} /\ conn[k].down = <<>>
    \/ pc[c] = "head" /\ conn[k].pending = {}
                      /\ conn[k].down = <<HeadOf(msg[c]), BodyOf(msg[c])>>
    \/ pc[c] = "body" /\ conn[k].pending = {} /\ answer[c].of = msg[c]
                      /\ conn[k].down = <<BodyOf(msg[c])>>

Clean(k) ==
    /\ Empty(k) \/ \E c \in Client : using[c] = k
    /\ \A c \in Client : using[c] = k => Awaits(c, k)

CleanInv == \A k \in Dialled : Settled(k) /\ (~conn[k].torn => Clean(k))

LEMMA EmptyClean == ASSUME NEW k, Empty(k) PROVE Clean(k)
BY DEF Clean, Awaits

\* A connection that is not empty has one user.
LEMMA Sole ==
    ASSUME TypeInv, OrderInv, NEW k \in Dialled, Clean(k),
           NEW c \in Client, using[c] = k, NEW d \in Client, using[d] = k, c # d
    PROVE  Empty(k)
<1>0. k # 0
  BY DialledLen DEF TypeInv
<1>1. ASSUME NEW e \in Client, using[e] = k
      PROVE  msg[e] \in Message /\ msg[e].client = e
  <2>1. msg[e] \in Message
    BY <1>0, <1>1 DEF TypeInv, Local
  <2>2. Mine(e) = <<msg[e]>>
    BY <2>1, NobodyAssumption DEF Mine
  <2>3. Own(<<msg[e]>>, e, sent)
    BY <2>2 DEF OrderInv, Ordered
  <2>4. /\ Len(<<msg[e]>>) = 1 /\ <<msg[e]>>[1] = msg[e]
        /\ Counts(msg[e]) /\ Of(msg[e]) = msg[e]
    BY <2>1 DEF Counts, Of
  <2> QED
    BY <2>1, <2>2, <2>3, <2>4 DEF Own
<1>2. msg[c] # msg[d]
  BY <1>1
<1>3. BodyOf(msg[c]) # BodyOf(msg[d]) /\ HeadOf(msg[c]) # HeadOf(msg[d])
      /\ HeadOf(msg[c]) # BodyOf(msg[d]) /\ BodyOf(msg[c]) # HeadOf(msg[d])
  BY <1>2 DEF HeadOf, BodyOf
<1>4. Awaits(c, k) /\ Awaits(d, k)
  BY DEF Clean
<1>5. /\ <<HeadOf(msg[c]), BodyOf(msg[c])>> # <<HeadOf(msg[d]), BodyOf(msg[d])>>
      /\ <<HeadOf(msg[c]), BodyOf(msg[c])>> # <<BodyOf(msg[d])>>
      /\ <<HeadOf(msg[d]), BodyOf(msg[d])>> # <<BodyOf(msg[c])>>
      /\ <<BodyOf(msg[c])>> # <<BodyOf(msg[d])>>
      /\ <<HeadOf(msg[c]), BodyOf(msg[c])>> # <<>>
      /\ <<BodyOf(msg[c])>> # <<>>
  BY <1>3
<1>6. {msg[c]} # {msg[d]} /\ {msg[c]} # {}
  BY <1>2
<1> HIDE DEF HeadOf, BodyOf
<1> QED
  BY <1>4, <1>5, <1>6 DEF Awaits

\* A step touches one connection, and of the goroutines only such as use no
\* other.
LEMMA CleanFrame ==
    ASSUME TypeInv, CleanInv, NEW k,
           \A d \in Client :
              \/ /\ pc'[d] = pc[d] /\ msg'[d] = msg[d]
                 /\ using'[d] = using[d] /\ answer'[d] = answer[d]
              \/ using[d] \in {0, k} /\ using'[d] \in {0, k},
           \A j \in Dialled' \ {k} : j \in Dialled /\ conn'[j] = conn[j],
           k \in Dialled' =>
              Settled(k)' /\ (~conn'[k].torn => Empty(k)' \/ Clean(k)')
    PROVE  CleanInv'
<1>0. ASSUME NEW j \in Dialled', Empty(j)' PROVE Clean(j)'
  BY <1>0 DEF Clean, Awaits
<1> SUFFICES ASSUME NEW j \in Dialled', j # k
             PROVE  Settled(j)' /\ (~conn'[j].torn => Clean(j)')
  BY <1>0 DEF CleanInv
<1>1. j \in Dialled /\ conn'[j] = conn[j] /\ j # 0
  BY DialledLen DEF TypeInv
<1>2. Settled(j)'
  BY <1>1 DEF CleanInv, Settled
<1>3. ASSUME ~conn'[j].torn PROVE Clean(j)'
  <2>1. Clean(j)
    BY <1>1, <1>3 DEF CleanInv
  <2>2. ASSUME NEW d \in Client, using[d] = j \/ using'[d] = j
        PROVE  /\ pc'[d] = pc[d] /\ msg'[d] = msg[d]
               /\ using'[d] = using[d] /\ answer'[d] = answer[d]
    BY <1>1, <2>2
  <2>3. Empty(j)' <=> Empty(j)
    BY <1>1 DEF Empty
  <2>4. ASSUME NEW d \in Client, using'[d] = j PROVE Awaits(d, j)'
    <3>1. using[d] = j /\ Awaits(d, j)
      BY <2>1, <2>2, <2>4 DEF Clean
    <3> QED
      BY <1>1, <2>2, <2>4, <3>1 DEF Awaits, Empty
  <2>5. Empty(j)' \/ \E d \in Client : using'[d] = j
    BY <2>1, <2>2, <2>3 DEF Clean
  <2> QED
    BY <2>4, <2>5 DEF Clean
<1> QED
  BY <1>2, <1>3

\* A step that touches none.
LEMMA CleanQuiet ==
    ASSUME TypeInv, CleanInv, UNCHANGED <<conn, using>>,
           \A d \in Client : using[d] # 0 =>
              pc'[d] = pc[d] /\ msg'[d] = msg[d] /\ answer'[d] = answer[d]
    PROVE  CleanInv'
<1>1. Dialled' = Dialled /\ 0 \notin Dialled
  BY DialledLen DEF TypeInv, Dialled
<1> QED
  BY <1>1, CleanFrame

\* A step of a goroutine on the connection it uses or gives up.
LEMMA CleanUse ==
    ASSUME TypeInv, CleanInv, NEW c \in Client, Moves(c), NEW k \in Dialled,
           using[c] = k, using'[c] \in {0, k},
           NEW r \in Conn, conn' = [conn EXCEPT ![k] = r],
           Settled(k)', ~r.torn => Empty(k)' \/ Clean(k)'
    PROVE  CleanInv'
<1>1. /\ Dialled' = Dialled
      /\ \A j \in Dialled : conn'[j] = IF j = k THEN r ELSE conn[j]
  BY ConnExcept DEF TypeInv
<1>2. \A d \in Client \ {c} : pc'[d] = pc[d] /\ msg'[d] = msg[d]
                              /\ using'[d] = using[d] /\ answer'[d] = answer[d]
  BY DEF Moves
<1> QED
  BY <1>1, <1>2, CleanFrame

LEMMA CleanGive ==
    ASSUME TypeInv, CleanInv, NEW c \in Client, Moves(c), NEW k \in Dialled,
           using[c] \in {0, k}, using'[c] \in {0, k}, UNCHANGED conn,
           ~conn[k].torn => Empty(k)
    PROVE  CleanInv'
<1>1. Dialled' = Dialled /\ (Settled(k) => Settled(k)')
      /\ (Empty(k) => Empty(k)')
  BY DEF Dialled, Settled, Empty
<1>2. \A d \in Client \ {c} : pc'[d] = pc[d] /\ msg'[d] = msg[d]
                              /\ using'[d] = using[d] /\ answer'[d] = answer[d]
  BY DEF Moves
<1>3. Settled(k)
  BY DEF CleanInv
<1> QED
  BY <1>1, <1>2, <1>3, CleanFrame

LEMMA WriteClean ==
    ASSUME TypeInv, GateInv, CleanInv, NEW c \in Client, Write(c)
    PROVE  CleanInv'
<1>0. PICK k : k = using[c]
  OBVIOUS
<1> DEFINE r == [conn[k] EXCEPT !.pending = @ \cup {msg[c]}]
<1>1. UNCHANGED <<lock, eirConn>> /\ pc[c] = "write" /\ LocalsOK /\ ConnOK
  BY DEF Write, TypeInv
<1>2. k \in Dialled /\ k # 0 /\ msg[c] \in Message /\ conn[k] \in Conn
  BY <1>0, <1>1, UsingDialled, DialledLen, ConnType DEF TypeInv, Local
<1>3. ~conn[k].torn => Empty(k)
  BY <1>0, <1>1, <1>2 DEF CleanInv, Clean, Awaits
<1>4. CASE /\ conn[k].state = "open"
           /\ conn' = [conn EXCEPT ![k] = r]
           /\ pc' = [pc EXCEPT ![c] = "head"]
           /\ UNCHANGED <<msg, answer, using>>
  <2>1. Moves(c)
    BY <1>1, <1>4, Others
  <2>2. r \in Conn /\ r.state = "open" /\ r.torn = conn[k].torn
        /\ r.down = conn[k].down /\ r.pending = conn[k].pending \cup {msg[c]}
    BY <1>2, <1>4 DEF Conn
  <2> HIDE DEF r
  <2>3. \A j \in Dialled : conn'[j] = IF j = k THEN r ELSE conn[j]
    BY <1>1, <1>2, <1>4, <2>2, ConnExcept
  <2>4. Settled(k)'
    BY <1>2, <2>2, <2>3 DEF Settled
  <2>5. ASSUME ~r.torn PROVE Clean(k)'
    <3>1. Empty(k) /\ ~Spoilt(k)
      BY <1>3, <1>4, <2>2, <2>5 DEF Spoilt
    <3>2. \A d \in Client : using'[d] = k => d = c
      BY <1>0, <1>2, <1>4, <3>1 DEF GateInv
    <3>3. pc'[c] = "head" /\ msg' = msg
      BY <1>1, <1>4 DEF LocalsOK
    <3>4. conn'[k].pending = {msg[c]} /\ conn'[k].down = <<>>
      BY <1>2, <2>2, <2>3, <3>1 DEF Empty
    <3>5. Awaits(c, k)' /\ using'[c] = k
      BY <1>0, <1>4, <3>3, <3>4 DEF Awaits
    <3> QED
      BY <3>2, <3>5 DEF Clean
  <2> QED
    BY <1>0, <1>2, <1>4, <2>1, <2>2, <2>4, <2>5, CleanUse
<1>5. CASE /\ pc' = [pc EXCEPT ![c] = "head"]
           /\ UNCHANGED <<msg, answer, using, conn>>
  <2>1. Moves(c)
    BY <1>1, <1>5, Others
  <2> QED
    BY <1>0, <1>2, <1>3, <1>5, <2>1, CleanGive
<1>6. CASE GiveUp(c) /\ UNCHANGED conn
  <2>1. Moves(c) /\ using'[c] = 0
    BY <1>1, <1>6, Others DEF GiveUp, LocalsOK
  <2> QED
    BY <1>0, <1>2, <1>3, <1>6, <2>1, CleanGive
<1> QED
  BY <1>0, <1>4, <1>5, <1>6 DEF Write

\* What there is to read on a connection that is not torn is c's answer.
LEMMA ReadsOwn ==
    ASSUME TypeInv, OrderInv, CleanInv, NEW c \in Client, NEW k \in Dialled,
           using[c] = k, conn[k].down # <<>>, ~conn[k].torn
    PROVE  /\ \A d \in Client : using[d] = k => d = c
           /\ conn[k].pending = {}
           /\ \/ /\ pc[c] = "head"
                 /\ conn[k].down = <<HeadOf(msg[c]), BodyOf(msg[c])>>
              \/ /\ pc[c] = "body" /\ answer[c].of = msg[c]
                 /\ conn[k].down = <<BodyOf(msg[c])>>
<1>1. Clean(k) /\ ~Empty(k)
  BY DEF CleanInv, Empty
<1>2. Awaits(c, k)
  BY <1>1 DEF Clean
<1>3. \A d \in Client : using[d] = k => d = c
  BY <1>1, Sole
<1> QED
  BY <1>1, <1>2, <1>3 DEF Awaits

\* A read from a connection that is torn: it stays so.
LEMMA TornClean ==
    ASSUME TypeInv, CleanInv, NEW c \in Client, Moves(c), NEW k \in Dialled,
           using[c] = k, using'[c] \in {0, k}, conn[k].torn,
           conn[k].state \in {"open", "ended"},
           NEW d, conn' = [conn EXCEPT ![k].down = d]
    PROVE  CleanInv'
<1> DEFINE r == [conn[k] EXCEPT !.down = d]
<1>1. Settled(k) /\ conn[k] \in Conn
  BY ConnType DEF CleanInv, TypeInv
<1>2. /\ Dialled' = Dialled
      /\ \A j \in Dialled : conn'[j] = IF j = k THEN r ELSE conn[j]
  BY DEF Dialled
<1>3. r.state = conn[k].state /\ r.pending = conn[k].pending /\ r.torn
  BY <1>1 DEF Conn
<1> HIDE DEF r
<1>4. Settled(k)' /\ conn'[k].torn
  BY <1>1, <1>2, <1>3 DEF Settled
<1>5. \A e \in Client \ {c} : pc'[e] = pc[e] /\ msg'[e] = msg[e]
                              /\ using'[e] = using[e] /\ answer'[e] = answer[e]
  BY DEF Moves
<1> QED
  BY <1>2, <1>4, <1>5, CleanFrame

LEMMA ReadHeadClean ==
    ASSUME TypeInv, OrderInv, CleanInv, NEW c \in Client, ReadHead(c)
    PROVE  CleanInv' /\ Replies(c)'
<1>0. PICK k : k = using[c]
  OBVIOUS
<1> DEFINE r == [conn[k] EXCEPT !.down = Tail(@)]
           a == [of |-> Head(conn[k].down).of, sound |-> ~conn[k].torn]
<1>1. UNCHANGED <<msg, using, lock, eirConn>> /\ pc[c] = "head" /\ LocalsOK
      /\ ConnOK
  BY DEF ReadHead, TypeInv
<1>2. k \in Dialled /\ conn[k] \in Conn /\ conn[k].down \in Seq(Piece)
      /\ conn[k].down # <<>> /\ conn[k].state \in {"open", "ended"}
  BY <1>0, <1>1, UsingDialled, ConnType DEF ReadHead, TypeInv
<1>3. /\ conn' = [conn EXCEPT ![k] = r]
      /\ answer' = [answer EXCEPT ![c] = a]
      /\ pc' = [pc EXCEPT ![c] = "body"]
  BY <1>0 DEF ReadHead
<1>4. Moves(c) /\ using'[c] = k /\ pc'[c] = "body" /\ msg'[c] = msg[c]
      /\ answer'[c] = a
  <2>1. Moves(c)
    BY <1>1, <1>3, Others
  <2> QED
    BY <1>0, <1>1, <1>3, <2>1 DEF LocalsOK
<1>5. CASE conn[k].torn
  <2>1. CleanInv'
    BY <1>0, <1>2, <1>3, <1>4, <1>5, TornClean
  <2>2. a.sound = FALSE
    BY <1>5
  <2> HIDE DEF a
  <2>3. Replies(c)'
    BY <1>4, <2>2 DEF Replies
  <2> QED
    BY <2>1, <2>3
<1>6. CASE ~conn[k].torn
  <2>1. /\ \A d \in Client : using[d] = k => d = c
        /\ conn[k].pending = {}
        /\ conn[k].down = <<HeadOf(msg[c]), BodyOf(msg[c])>>
    BY <1>0, <1>1, <1>2, <1>6, ReadsOwn
  <2>2. /\ Head(conn[k].down) = HeadOf(msg[c])
        /\ Tail(conn[k].down) = <<BodyOf(msg[c])>>
    BY <2>1
  <2>3. a.of = msg[c]
    BY <2>2 DEF HeadOf
  <2>4. Replies(c)'
    BY <1>4, <2>3 DEF Replies
  <2>5. Tail(conn[k].down) \in Seq(Piece)
    BY <1>2, HeadTailProperties
  <2>6. r \in Conn /\ r.state = conn[k].state /\ r.pending = {}
        /\ r.down = <<BodyOf(msg[c])>>
    BY <1>2, <2>1, <2>2, <2>5 DEF Conn
  <2> HIDE DEF r, a
  <2>7. \A j \in Dialled : conn'[j] = IF j = k THEN r ELSE conn[j]
    BY <1>1, <1>2, <1>3, <2>6, ConnExcept
  <2>8. Settled(k)'
    BY <1>2, <2>6, <2>7 DEF Settled
  <2>9. Clean(k)'
    <3>1. Awaits(c, k)'
      BY <1>2, <1>4, <2>3, <2>6, <2>7 DEF Awaits
    <3> QED
      BY <1>1, <1>4, <2>1, <3>1 DEF Clean
  <2> QED
    BY <1>0, <1>2, <1>3, <1>4, <2>4, <2>6, <2>8, <2>9, CleanUse
<1> QED
  BY <1>5, <1>6

LEMMA ReadBodyClean ==
    ASSUME TypeInv, OrderInv, CleanInv, NEW c \in Client, ReadBody(c)
    PROVE  CleanInv' /\ Replies(c)'
<1>0. PICK k : k = using[c]
  OBVIOUS
<1> DEFINE r == [conn[k] EXCEPT !.down = Tail(@)]
           a == [answer[c] EXCEPT !.sound = @ /\ ~conn[k].torn]
<1>1. UNCHANGED <<msg, lock, eirConn>> /\ pc[c] = "body" /\ LocalsOK /\ ConnOK
  BY DEF ReadBody, TypeInv
<1>2. k \in Dialled /\ conn[k] \in Conn /\ conn[k].down \in Seq(Piece)
      /\ conn[k].down # <<>> /\ conn[k].state \in {"open", "ended"}
  BY <1>0, <1>1, UsingDialled, ConnType DEF ReadBody, TypeInv
<1>3. /\ conn' = [conn EXCEPT ![k] = r]
      /\ answer' = [answer EXCEPT ![c] = a]
      /\ using' = [using EXCEPT ![c] = 0]
      /\ pc' = [pc EXCEPT ![c] = "reply"]
  BY <1>0 DEF ReadBody
<1>4. Moves(c) /\ using'[c] = 0 /\ pc'[c] = "reply" /\ msg'[c] = msg[c]
      /\ answer'[c] = a
  <2>1. Moves(c)
    BY <1>1, <1>3, Others
  <2> QED
    BY <1>1, <1>3, <2>1 DEF LocalsOK
<1>5. Replies(c)'
  <2>1. answer[c].sound => answer[c].of = msg[c]
    BY <1>1 DEF OrderInv, Replies
  <2>2. a.of = answer[c].of /\ (a.sound => answer[c].sound)
    BY <1>1 DEF LocalsOK, Answer
  <2> QED
    BY <1>4, <2>1, <2>2 DEF Replies
<1>6. CASE conn[k].torn
  BY <1>0, <1>2, <1>3, <1>4, <1>5, <1>6, TornClean
<1>7. CASE ~conn[k].torn
  <2>1. conn[k].pending = {} /\ conn[k].down = <<BodyOf(msg[c])>>
    BY <1>0, <1>1, <1>2, <1>7, ReadsOwn
  <2>2. Tail(conn[k].down) = <<>> /\ <<>> \in Seq(Piece)
    BY <2>1
  <2>3. r \in Conn /\ r.state = conn[k].state /\ r.pending = {} /\ r.down = <<>>
    BY <1>2, <2>1, <2>2 DEF Conn
  <2> HIDE DEF r
  <2>4. \A j \in Dialled : conn'[j] = IF j = k THEN r ELSE conn[j]
    BY <1>1, <1>2, <1>3, <2>3, ConnExcept
  <2>5. Settled(k)' /\ Empty(k)'
    BY <1>2, <2>3, <2>4 DEF Settled, Empty
  <2> QED
    BY <1>0, <1>2, <1>3, <1>4, <1>5, <2>3, <2>5, CleanUse
<1> QED
  BY <1>6, <1>7

\* It happens only where a byte was taken: elsewhere the goroutine is alone, and
\* what it wants is what comes.
LEMMA ReadAstrayClean ==
    ASSUME TypeInv, OrderInv, CleanInv, NEW c \in Client, ReadAstray(c)
    PROVE  CleanInv' /\ Replies(c)'
<1>0. PICK k : k = using[c]
  OBVIOUS
<1>1. UNCHANGED <<lock, eirConn>> /\ pc[c] \in {"head", "body"} /\ LocalsOK
  BY DEF ReadAstray, TypeInv
<1>2. k \in Dialled /\ conn[k].down # <<>> /\ conn[k].state \in {"open", "ended"}
  BY <1>0, <1>1, UsingDialled DEF ReadAstray
<1>3. conn[k].torn
  <2> SUFFICES ASSUME ~conn[k].torn PROVE FALSE
    OBVIOUS
  <2>1. /\ \A d \in Client : using[d] = k => d = c
        /\ \/ /\ pc[c] = "head"
              /\ conn[k].down = <<HeadOf(msg[c]), BodyOf(msg[c])>>
           \/ /\ pc[c] = "body" /\ answer[c].of = msg[c]
              /\ conn[k].down = <<BodyOf(msg[c])>>
    BY <1>0, <1>2, ReadsOwn
  <2>2. Reading(k) = {c}
    BY <1>0, <1>1, <2>1 DEF Reading
  <2>3. pc[c] = "head" => Head(conn[k].down).part = "head"
    BY <2>1 DEF HeadOf
  <2>4. pc[c] = "body" => Head(conn[k].down) = [of |-> answer[c].of, part |-> "body"]
    BY <2>1 DEF BodyOf
  <2> QED
    BY <1>0, <2>2, <2>3, <2>4 DEF ReadAstray
<1>4. PICK d : /\ conn' = [conn EXCEPT ![k].down = d]
               /\ \/ /\ pc' = [pc EXCEPT ![c] = "body"]
                     /\ answer' = [answer EXCEPT ![c] = NoAnswer]
                     /\ UNCHANGED <<msg, using>>
                  \/ /\ pc' = [pc EXCEPT ![c] = "reply"]
                     /\ answer' = [answer EXCEPT ![c] = [of |-> Garbage,
                                                        sound |-> ~conn[k].torn]]
                     /\ using' = [using EXCEPT ![c] = 0]
                     /\ UNCHANGED msg
                  \/ GiveUp(c)
  BY <1>0 DEF ReadAstray
<1>5. Moves(c) /\ using'[c] \in {0, k} /\ Replies(c)'
  <2>1. CASE /\ pc' = [pc EXCEPT ![c] = "body"]
             /\ answer' = [answer EXCEPT ![c] = NoAnswer]
             /\ UNCHANGED <<msg, using>>
    <3>1. Moves(c)
      BY <1>1, <2>1, Others
    <3> QED
      BY <1>0, <1>1, <2>1, <3>1 DEF LocalsOK, Replies, NoAnswer
  <2>2. CASE /\ pc' = [pc EXCEPT ![c] = "reply"]
             /\ answer' = [answer EXCEPT ![c] = [of |-> Garbage,
                                                sound |-> ~conn[k].torn]]
             /\ using' = [using EXCEPT ![c] = 0]
             /\ UNCHANGED msg
    <3>1. Moves(c)
      BY <1>1, <2>2, Others
    <3> QED
      BY <1>1, <1>3, <2>2, <3>1 DEF LocalsOK, Replies
  <2>3. CASE GiveUp(c)
    <3>1. Moves(c)
      BY <1>1, <2>3, Others DEF GiveUp
    <3> QED
      BY <1>1, <2>3, <3>1 DEF GiveUp, LocalsOK, Replies
  <2> QED
    BY <1>4, <2>1, <2>2, <2>3
<1>6. CleanInv'
  BY <1>0, <1>2, <1>3, <1>4, <1>5, TornClean
<1> QED
  BY <1>5, <1>6

LEMMA ReadFailsClean ==
    ASSUME TypeInv, CleanInv, NEW c \in Client, ReadFails(c)
    PROVE  CleanInv'
<1>0. PICK k : k = using[c]
  OBVIOUS
<1>1. UNCHANGED <<lock, eirConn, conn>> /\ pc[c] \in {"head", "body"}
      /\ GiveUp(c) /\ LocalsOK
  BY DEF ReadFails, TypeInv
<1>2. k \in Dialled /\ Settled(k)
  BY <1>0, <1>1, UsingDialled DEF TypeInv, CleanInv
<1>3. Empty(k)
  BY <1>0, <1>2 DEF ReadFails, Settled, Empty
<1>4. Moves(c) /\ using'[c] = 0
  BY <1>1, Others DEF GiveUp, LocalsOK
<1> QED
  BY <1>0, <1>1, <1>2, <1>3, <1>4, CleanGive

LEMMA ProbeClean ==
    ASSUME TypeInv, CleanInv, NEW c \in Client, Probe(c)
    PROVE  CleanInv'
<1>0. PICK k : k = eirConn
  OBVIOUS
<1>1. pc[c] = "probe" /\ k \in Dialled /\ lock = c /\ using[c] = 0
      /\ Settled(k) /\ conn[k] \in Conn /\ LocalsOK
  BY <1>0, ProbeDialled, ConnType
     DEF Probe, ProbeTimeout, ProbeByte, ProbeEOF, ProbeError, TypeInv, CleanInv
<1>2. CASE Dead(c)
  <2>1. /\ Dialled' = Dialled /\ using' = using
        /\ \A j \in Dialled : conn'[j] = IF j = k THEN Closed ELSE conn[j]
    BY <1>0, <1>1, <1>2, DeadStep
  <2>2. Settled(k)' /\ Empty(k)'
    BY <1>1, <2>1 DEF Closed, Fresh, Settled, Empty
  <2>3. \A d \in Client \ {c} : pc'[d] = pc[d] /\ msg'[d] = msg[d]
                                /\ answer'[d] = answer[d]
    BY <1>1, <1>2 DEF Dead, LocalsOK
  <2> QED
    BY <1>1, <2>1, <2>2, <2>3, CleanFrame
<1>3. ASSUME Alive(c)
      PROVE  /\ using'[c] = k
             /\ \A d \in Client \ {c} : pc'[d] = pc[d] /\ msg'[d] = msg[d]
                                        /\ using'[d] = using[d]
                                        /\ answer'[d] = answer[d]
  BY <1>0, <1>1, <1>3 DEF Alive, LocalsOK
<1>4. CASE ProbeByte(c)
  <2>0. PICK d \in Shortened(conn[k].down) :
           conn' = [conn EXCEPT ![k].down = d, ![k].torn = TRUE]
    BY <1>0, <1>4 DEF ProbeByte
  <2> DEFINE r == [conn[k] EXCEPT !.down = d, !.torn = TRUE]
  <2>1. conn[k].down # <<>> /\ Alive(c) /\ d \in Seq(Piece)
    BY <1>0, <1>1, <1>4, ConnType, RemainderType DEF ProbeByte, TypeInv
  <2>2. r \in Conn /\ r.state = conn[k].state /\ r.pending = conn[k].pending
        /\ r.torn
    BY <1>1, <2>1 DEF Conn
  <2>3. conn' = [conn EXCEPT ![k] = r]
    BY <1>1, <2>0
  <2> HIDE DEF r
  <2>4. /\ Dialled' = Dialled
        /\ \A j \in Dialled : conn'[j] = IF j = k THEN r ELSE conn[j]
    BY <1>1, <2>2, <2>3, ConnExcept DEF TypeInv
  <2>5. Settled(k)' /\ conn'[k].torn
    BY <1>1, <2>1, <2>2, <2>4 DEF Settled
  <2> QED
    BY <1>1, <1>3, <2>1, <2>4, <2>5, CleanFrame
<1>5. CASE ProbeEOF(c)
  <2>1. Alive(c) /\ UNCHANGED conn /\ Empty(k)
    BY <1>0, <1>1, <1>5 DEF ProbeEOF, Settled, Empty
  <2>2. Dialled' = Dialled /\ Settled(k)' /\ Empty(k)'
    BY <1>1, <2>1 DEF Dialled, Settled, Empty
  <2> QED
    BY <1>1, <1>3, <2>1, <2>2, CleanFrame
<1> QED
  BY <1>2, <1>4, <1>5 DEF Probe, ProbeTimeout, ProbeError

LEMMA DialClean ==
    ASSUME TypeInv, CleanInv, NEW c \in Client, Dial(c)
    PROVE  CleanInv'
<1>0. PICK k : k = Len(conn')
  OBVIOUS
<1>1. /\ Dialled' = Dialled \cup {k} /\ conn'[k] = Fresh
      /\ \A j \in Dialled : conn'[j] = conn[j]
  BY <1>0, FreshConn, ConnAppend DEF Dial, TypeInv
<1>2. using[c] = 0 /\ using'[c] = k
  BY <1>0 DEF Dial, TypeInv, Local, LocalsOK
<1>3. \A d \in Client \ {c} : pc'[d] = pc[d] /\ msg'[d] = msg[d]
                              /\ using'[d] = using[d] /\ answer'[d] = answer[d]
  BY DEF Dial, TypeInv, LocalsOK
<1>4. Settled(k)' /\ Empty(k)'
  BY <1>1 DEF Fresh, Settled, Empty
<1> QED
  BY <1>1, <1>2, <1>3, <1>4, CleanFrame

\* The EIR core answers the request of the goroutine that waits for it.
LEMMA EIRAnswersClean ==
    ASSUME TypeInv, OrderInv, CleanInv, NEW k \in Dialled, EIRAnswers(k)
    PROVE  CleanInv'
<1>1. PICK m \in conn[k].pending :
         conn' = [conn EXCEPT ![k].pending = @ \ {m},
                              ![k].down = @ \o <<HeadOf(m), BodyOf(m)>>]
  BY DEF EIRAnswers, HeadOf, BodyOf
<1> DEFINE r == [conn[k] EXCEPT !.pending = @ \ {m},
                                !.down = @ \o <<HeadOf(m), BodyOf(m)>>]
<1>2. conn[k] \in Conn /\ conn[k].state = "open" /\ conn[k].down \in Seq(Piece)
  BY ConnType DEF EIRAnswers, TypeInv
<1>3. /\ Dialled' = Dialled
      /\ \A j \in Dialled : conn'[j] = IF j = k THEN r ELSE conn[j]
  BY <1>1, <1>2 DEF Dialled, Conn
<1>4. /\ r.state = "open" /\ r.torn = conn[k].torn
      /\ r.pending = conn[k].pending \ {m}
      /\ r.down = conn[k].down \o <<HeadOf(m), BodyOf(m)>>
  BY <1>2 DEF Conn
<1> HIDE DEF r
<1>5. Settled(k)'
  BY <1>3, <1>4 DEF Settled
<1>6. UNCHANGED <<pc, msg, using, answer>>
  BY DEF EIRAnswers, gatewayVars
<1>7. ASSUME ~conn[k].torn PROVE Clean(k)'
  <2>1. Clean(k) /\ ~Empty(k)
    BY <1>7 DEF CleanInv, Empty
  <2>2. PICK c \in Client : using[c] = k
    BY <2>1 DEF Clean
  <2>3. \A d \in Client : using[d] = k => d = c
    BY <2>1, <2>2, Sole
  <2>4. pc[c] = "head" /\ conn[k].pending = {msg[c]} /\ conn[k].down = <<>>
    BY <2>1, <2>2 DEF Clean, Awaits
  <2>5. <<>> \o <<HeadOf(m), BodyOf(m)>> = <<HeadOf(m), BodyOf(m)>>
    OBVIOUS
  <2>6. m = msg[c] /\ r.pending = {} /\ r.down = <<HeadOf(m), BodyOf(m)>>
    BY <1>4, <2>4, <2>5
  <2>7. Awaits(c, k)' /\ using'[c] = k
    BY <1>3, <1>6, <2>2, <2>4, <2>6 DEF Awaits
  <2> QED
    BY <1>6, <2>3, <2>7 DEF Clean
<1> QED
  BY <1>3, <1>4, <1>5, <1>6, <1>7, CleanFrame

\* Where the EIR core ends, what is on the way is lost or still comes; no
\* request is pending any more.
LEMMA EIRStopsClean ==
    ASSUME TypeInv, CleanInv, EIRStops
    PROVE  CleanInv'
<1>1. PICK how \in [Dialled -> {"ended", "reset"}] :
         conn' = [k \in Dialled |->
                    IF conn[k].state # "open" THEN conn[k]
                    ELSE [conn[k] EXCEPT
                            !.state = how[k], !.pending = {},
                            !.down = IF how[k] = "reset" THEN <<>> ELSE @]]
  BY DEF EIRStops
<1>2. Dialled' = Dialled /\ UNCHANGED <<pc, msg, using, answer>>
  BY <1>1 DEF Dialled, EIRStops, gatewayVars
<1> SUFFICES ASSUME NEW k \in Dialled
             PROVE  Settled(k)' /\ (~conn'[k].torn => Clean(k)')
  BY <1>2 DEF CleanInv
<1>3. conn[k] \in Conn
  BY ConnType DEF TypeInv
<1>4. CASE conn[k].state # "open"
  <2>1. conn'[k] = conn[k]
    BY <1>1, <1>4
  <2> QED
    BY <1>2, <2>1 DEF CleanInv, Settled, Clean, Awaits, Empty
<1>5. CASE conn[k].state = "open"
  <2>1. /\ conn'[k].state = how[k] /\ conn'[k].pending = {}
        /\ conn'[k].down = IF how[k] = "reset" THEN <<>> ELSE conn[k].down
        /\ conn'[k].torn = conn[k].torn
    BY <1>1, <1>3, <1>5 DEF Conn
  <2>2. Settled(k)'
    BY <2>1 DEF Settled
  <2>3. ASSUME Clean(k) PROVE Clean(k)'
    <3>1. Empty(k) => Empty(k)'
      BY <2>1 DEF Empty
    <3>2. ASSUME NEW c \in Client, Awaits(c, k) PROVE Awaits(c, k)'
      BY <1>2, <2>1, <3>2 DEF Awaits, Empty
    <3> QED
      BY <1>2, <2>3, <3>1, <3>2 DEF Clean
  <2> QED
    BY <2>1, <2>2, <2>3 DEF CleanInv
<1> QED
  BY <1>4, <1>5

LEMMA StopEIRClean ==
    ASSUME StopEIR
    PROVE  CleanInv'
<1>1. Dialled' = Dialled /\ \A k \in Dialled : conn'[k] = Closed
  BY DEF StopEIR, Dialled
<1>2. ASSUME NEW k \in Dialled PROVE Settled(k)' /\ Empty(k)'
  BY <1>1 DEF Closed, Fresh, Settled, Empty
<1> QED
  BY <1>1, <1>2 DEF CleanInv, Clean, Awaits

-----------------------------------------------------------------------------
(* The invariant *)

LEMMA HandleClean ==
    ASSUME TypeInv, GateInv, OrderInv, CleanInv, NEW c \in Client, Handle(c)
    PROVE  CleanInv'
<1>1. LocalsOK /\ Local(c)
  BY DEF TypeInv
<1>2. CASE Read(c) \/ Reply(c) \/ End(c) \/ Lock(c)
  <2>1. UNCHANGED <<conn, using>> /\ using[c] = 0
    BY <1>1, <1>2 DEF Read, Reply, End, Lock, Local
  <2>2. \A d \in Client \ {c} : pc'[d] = pc[d] /\ msg'[d] = msg[d]
                                /\ answer'[d] = answer[d]
    BY <1>1, <1>2 DEF Read, Reply, End, Lock, LocalsOK
  <2> QED
    BY <2>1, <2>2, CleanQuiet
<1>3. CASE DialFails(c)
  <2>1. UNCHANGED conn /\ using[c] = 0 /\ using' = [using EXCEPT ![c] = 0]
    BY <1>1, <1>3 DEF DialFails, GiveUp, Local
  <2>2. using' = using
    BY <1>1, <2>1 DEF LocalsOK
  <2>3. \A d \in Client \ {c} : pc'[d] = pc[d] /\ msg'[d] = msg[d]
                                /\ answer'[d] = answer[d]
    BY <1>1, <1>3 DEF DialFails, GiveUp, LocalsOK
  <2> QED
    BY <2>1, <2>2, <2>3, CleanQuiet
<1>4. CASE Probe(c) \/ Dial(c) \/ Write(c)
  BY <1>4, ProbeClean, DialClean, WriteClean
<1>5. CASE ReadHead(c) \/ ReadBody(c)
  BY <1>5, ReadHeadClean, ReadBodyClean
<1>6. CASE ReadAstray(c) \/ ReadFails(c)
  BY <1>6, ReadAstrayClean, ReadFailsClean
<1> QED
  BY <1>2, <1>3, <1>4, <1>5, <1>6 DEF Handle

\* A goroutine touches the lines of its own client only.
LEMMA HandleOrder ==
    ASSUME TypeInv, OrderInv, CleanInv, NEW c \in Client, Handle(c)
    PROVE  OrderInv'
<1>0. Ordered(c) /\ Replies(c) /\ LocalsOK /\ NetOK
  BY DEF OrderInv, TypeInv
<1>1. ASSUME NEW d \in Client \ {c}
      PROVE  /\ UNCHANGED <<sent, received>> /\ back'[d] = back[d]
             /\ through'[d] = through[d] /\ msg'[d] = msg[d]
             /\ pc'[d] = pc[d] /\ answer'[d] = answer[d]
  <2> USE <1>0 DEF LocalsOK, NetOK, clientVars
  <2>1. CASE Read(c) \/ Reply(c) \/ End(c)
    BY <2>1 DEF Read, Reply, End
  <2>2. CASE Lock(c) \/ Probe(c) \/ Dial(c) \/ DialFails(c)
    BY <2>2 DEF Lock, Probe, ProbeTimeout, ProbeByte, ProbeEOF, ProbeError,
                Alive, Dead, Dial, DialFails, GiveUp
  <2>3. CASE Write(c) \/ ReadHead(c) \/ ReadBody(c)
    BY <2>3 DEF Write, ReadHead, ReadBody, GiveUp
  <2>4. CASE ReadAstray(c) \/ ReadFails(c)
    BY <2>4 DEF ReadAstray, ReadFails, GiveUp
  <2> QED
    BY <2>1, <2>2, <2>3, <2>4 DEF Handle
<1>2. ASSUME NEW d \in Client \ {c} PROVE Ordered(d)' /\ Replies(d)'
  <2>1. Ordered(d) /\ Replies(d)
    BY DEF OrderInv
  <2>2. Ordered(d)'
    BY <1>1, <2>1, Fewer
  <2> QED
    BY <1>1, <2>1, <2>2 DEF Replies
<1>3. CASE Read(c) \/ Reply(c)
  BY <1>0, <1>2, <1>3, ReadOrder, ReplyOrder DEF OrderInv
<1>4. ASSUME UNCHANGED <<sent, received, back, through>>,
             msg'[c] = msg[c] \/ msg'[c] = Nobody, Replies(c)'
      PROVE  OrderInv'
  <2>1. Ordered(c)'
    BY <1>0, <1>4, Fewer
  <2> QED
    BY <1>2, <1>4, <2>1 DEF OrderInv
<1>5. CASE ReadHead(c) \/ ReadBody(c) \/ ReadAstray(c)
  <2>1. Replies(c)'
    BY <1>5, ReadHeadClean, ReadBodyClean, ReadAstrayClean
  <2>2. UNCHANGED <<sent, received, back, through>>
        /\ (msg'[c] = msg[c] \/ msg'[c] = Nobody)
    BY <1>0, <1>5 DEF ReadHead, ReadBody, ReadAstray, GiveUp, clientVars, LocalsOK
  <2> QED
    BY <1>4, <2>1, <2>2
<1>6. CASE End(c) \/ Lock(c) \/ Probe(c) \/ Dial(c)
  BY <1>0, <1>4, <1>6
     DEF End, Lock, Probe, ProbeTimeout, ProbeByte, ProbeEOF, ProbeError,
         Alive, Dead, Dial, clientVars, LocalsOK, Replies
<1>7. CASE DialFails(c) \/ Write(c) \/ ReadFails(c)
  BY <1>0, <1>4, <1>7
     DEF DialFails, Write, ReadFails, GiveUp, clientVars, LocalsOK, Replies
<1> QED
  BY <1>3, <1>5, <1>6, <1>7 DEF Handle

LEMMA NetOrder ==
    ASSUME TypeInv, OrderInv,
           \/ \E c \in Client :
                 \/ Connect(c) \/ Disconnect(c) \/ ForwardAnswer(c)
                 \/ \E command \in Command : ForwardRequest(c, command)
           \/ EIRStarts \/ StopDRA \/ EIRStops
           \/ \E k \in Dialled : EIRAnswers(k)
           \/ UNCHANGED vars
    PROVE  OrderInv' /\ UNCHANGED gatewayVars
<1>0. UNCHANGED gatewayVars
  BY DEF Connect, Disconnect, ForwardAnswer, ForwardRequest, EIRStarts, StopDRA,
         EIRStops, EIRAnswers, vars
<1>1. UNCHANGED <<pc, msg, answer>>
  BY <1>0 DEF gatewayVars
<1>2. \A d \in Client : Replies(d)'
  BY <1>1 DEF OrderInv, Replies
<1>3. ASSUME NEW d \in Client, sent' \in {sent, sent + 1},
             received'[d] = received[d],
             back'[d] = back[d] \/ back'[d] = <<>>,
             through'[d] = through[d] \/ through'[d] = <<>>
      PROVE  Ordered(d)'
  BY <1>1, <1>3, Fewer DEF OrderInv
<1>4. ASSUME NEW c \in Client, ForwardAnswer(c) PROVE OrderInv'
  <2>1. Ordered(c)'
    BY <1>4, ForwardAnswerOrder DEF OrderInv
  <2>2. ASSUME NEW d \in Client \ {c} PROVE Ordered(d)'
    <3>1. UNCHANGED <<sent, through>> /\ received'[d] = received[d]
          /\ back'[d] = back[d]
      BY <1>4 DEF ForwardAnswer, TypeInv, NetOK
    <3> QED
      BY <1>3, <3>1
  <2> QED
    BY <1>2, <2>1, <2>2 DEF OrderInv
<1>5. ASSUME NEW c \in Client, NEW command \in Command, ForwardRequest(c, command)
      PROVE  OrderInv'
  <2>1. Ordered(c)'
    BY <1>5, ForwardRequestOrder DEF OrderInv
  <2>2. ASSUME NEW d \in Client \ {c} PROVE Ordered(d)'
    <3>1. UNCHANGED <<received, back>> /\ through'[d] = through[d]
          /\ sent' = sent + 1
      BY <1>5 DEF ForwardRequest, TypeInv, NetOK
    <3> QED
      BY <1>3, <3>1
  <2> QED
    BY <1>2, <2>1, <2>2 DEF OrderInv
<1>6. CASE \/ \E c \in Client : Connect(c) \/ Disconnect(c)
           \/ StopDRA
  <2>1. UNCHANGED <<sent, received>>
    BY <1>6 DEF Connect, Disconnect, StopDRA
  <2>2. ASSUME NEW d \in Client
        PROVE  /\ back'[d] = back[d] \/ back'[d] = <<>>
               /\ through'[d] = through[d] \/ through'[d] = <<>>
    BY <1>6 DEF Connect, Disconnect, StopDRA, TypeInv, NetOK
  <2>3. ASSUME NEW d \in Client PROVE Ordered(d)'
    BY <1>3, <2>1, <2>2
  <2> QED
    BY <1>0, <1>2, <2>3 DEF OrderInv
<1>7. CASE \/ EIRStarts \/ EIRStops \/ UNCHANGED vars
           \/ \E k \in Dialled : EIRAnswers(k)
  <2>1. UNCHANGED <<sent, received, back, through>>
    BY <1>7 DEF EIRStarts, EIRStops, EIRAnswers, vars, clientVars
  <2>2. ASSUME NEW d \in Client PROVE Ordered(d)'
    BY <1>3, <2>1
  <2> QED
    BY <1>0, <1>2, <2>2 DEF OrderInv
<1> QED
  BY <1>0, <1>4, <1>5, <1>6, <1>7

LEMMA StopEIROrder ==
    ASSUME TypeInv, OrderInv, StopEIR
    PROVE  OrderInv'
<1> SUFFICES ASSUME NEW c \in Client PROVE Ordered(c)' /\ Replies(c)'
  BY DEF OrderInv
<1>1. /\ UNCHANGED <<sent, received, back>> /\ through'[c] = <<>>
      /\ msg'[c] = Nobody /\ pc'[c] = "closed"
  BY DEF StopEIR, clientVars
<1>2. Ordered(c)'
  BY <1>1, Fewer DEF OrderInv
<1> QED
  BY <1>1, <1>2 DEF Replies

LEMMA InitOrder == Init => OrderInv /\ CleanInv
<1> SUFFICES ASSUME Init PROVE OrderInv /\ CleanInv
  OBVIOUS
<1>1. ASSUME NEW c \in Client PROVE Ordered(c) /\ Replies(c)
  <2>1. /\ received[c] = <<>> /\ back[c] = <<>> /\ through[c] = <<>>
        /\ Mine(c) = <<>> /\ pc[c] = "read"
    BY DEF Init, Mine
  <2> QED
    BY <2>1, EmptyOrder DEF Ordered, Replies
<1>2. Dialled = {}
  BY DEF Init, Dialled
<1> QED
  BY <1>1, <1>2 DEF OrderInv, CleanInv

LEMMA NextOrder ==
    ASSUME TypeInv, GateInv, OrderInv, CleanInv, [Next]_vars
    PROVE  OrderInv' /\ CleanInv'
<1>1. CASE \E c \in Client : Handle(c)
  BY <1>1, HandleOrder, HandleClean
<1>2. ASSUME UNCHANGED <<gatewayVars, conn>> PROVE CleanInv'
  BY <1>2, CleanQuiet DEF gatewayVars
<1>3. CASE \/ \E c \in Client :
                 \/ Connect(c) \/ Disconnect(c) \/ ForwardAnswer(c)
                 \/ \E command \in Command : ForwardRequest(c, command)
           \/ EIRStarts \/ StopDRA \/ UNCHANGED vars
  <2>1. UNCHANGED conn
    BY <1>3 DEF Connect, Disconnect, ForwardAnswer, ForwardRequest, EIRStarts,
                StopDRA, vars
  <2> QED
    BY <1>2, <1>3, <2>1, NetOrder
<1>4. CASE EIRStops \/ \E k \in Dialled : EIRAnswers(k)
  BY <1>4, NetOrder, EIRStopsClean, EIRAnswersClean
<1>5. CASE StopEIR
  BY <1>5, StopEIROrder, StopEIRClean
<1> QED
  BY <1>1, <1>3, <1>4, <1>5 DEF Next

LEMMA OrderInvariant == Spec => [](OrderInv /\ CleanInv)
<1>1. Init => OrderInv /\ CleanInv
  BY InitOrder
<1>2. TypeInv /\ GateInv /\ OrderInv /\ CleanInv /\ [Next]_vars
         => (OrderInv /\ CleanInv)'
  BY NextOrder
<1> QED
  BY <1>1, <1>2, Invariant, PTL DEF Spec

\* Whatever connections end, are closed by the test or shared after it, and
\* whatever else a goroutine read off the boundaries: an answer that reaches a
\* client over a connection no test of getEIRConnection took a byte of is whole,
\* to a request of the client's own, and none such comes twice or before one to
\* an earlier request.
THEOREM AnswersOrdered == Spec => []SoundMatch
<1>1. TypeInv /\ OrderInv => SoundMatch
  <2> SUFFICES ASSUME TypeInv, OrderInv, NEW c \in Client,
                      NEW i \in DOMAIN received[c], received[c][i].sound
               PROVE  /\ received[c][i].of # Garbage
                      /\ received[c][i].of.client = c
                      /\ \A j \in DOMAIN received[c] :
                            received[c][j].sound /\ j < i =>
                               received[c][j].of.n < received[c][i].of.n
    BY DEF SoundMatch, InTurn
  <2>1. Own(received[c], c, sent) /\ Rising(received[c])
    BY DEF OrderInv, Ordered
  <2>2. received[c] \in Seq(Answer) /\ DOMAIN received[c] = 1..Len(received[c])
    BY LineTypes, LenProperties
  <2>3. \A j \in DOMAIN received[c] :
           /\ Counts(received[c][j]) = received[c][j].sound
           /\ Of(received[c][j]) = received[c][j].of
    BY <2>2, Apart, ElementOfSeq
  <2>4. received[c][i].of \in Message /\ received[c][i].of.client = c
    BY <2>1, <2>2, <2>3 DEF Own
  <2>5. \A j \in DOMAIN received[c] :
           received[c][j].sound /\ j < i =>
              received[c][j].of.n < received[c][i].of.n
    BY <2>1, <2>2, <2>3 DEF Rising
  <2> QED
    BY <2>4, <2>5, GarbageAssumption
<1> QED
  BY <1>1, Invariant, OrderInvariant, PTL

=============================================================================
