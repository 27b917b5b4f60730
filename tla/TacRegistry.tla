---------------------------- MODULE TacRegistry -----------------------------
(***************************************************************************)
(* What provisioning TAC ranges promises: ranges are registered one at a   *)
(* time, a key already registered is refused ("range_exist"), and nothing  *)
(* that follows removes a registered range or changes its colour.  How     *)
(* nested ranges are linked is not visible here.                           *)
(***************************************************************************)
EXTENDS TacRange

CONSTANT Color

VARIABLE registry     \* registered key -> colour

TypeOK == /\ DOMAIN registry \subseteq Key
          /\ registry \in [DOMAIN registry -> Color]

Init == registry = [k \in {} |-> k]

Register(k, c) ==
    /\ k \notin DOMAIN registry
    /\ registry' = [x \in DOMAIN registry \cup {k} |->
                       IF x = k THEN c ELSE registry[x]]

Next == \E k \in Key, c \in Color : Register(k, c)

Spec == Init /\ [][Next]_registry

=============================================================================
