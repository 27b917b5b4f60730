-------------------------- MODULE MCDiameterGateway --------------------------
(* Small instances of DiameterGateway, which treats all clients alike. *)
EXTENDS DiameterGateway, TLC

MCSymmetry == Permutations(Client)

Connected == {c \in Client : link[c] # "new"}

\* Commands on their way to the gateway.
UnderWay == UNION {{through[c][i].command : i \in DOMAIN through[c]} : c \in Client}

Restarted == ~eirUp \/ restarts > 0
Disconnected == \E c \in Client : link[c] = "down"

\* Bound: only a client that is alone sends what is not to be forwarded, or loses
\* its connection besides the EIR core's; with three clients nothing ends.
MCBound ==
    /\ Cardinality(Connected) > 1 =>
          UnderWay \subseteq {"ECR"} /\ ~(Restarted /\ Disconnected)
    /\ Cardinality(Connected) > 2 =>
          phase = "running" /\ ~Restarted /\ ~Disconnected
=============================================================================
