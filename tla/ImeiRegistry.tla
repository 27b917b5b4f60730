---------------------------- MODULE ImeiRegistry ----------------------------
(***************************************************************************)
(* What provisioning IMEIs promises: a start (the checked digits) has one  *)
(* colour, fixed when it is first registered, and a set of ends; an IMEI   *)
(* is registered at most once, and stays registered.  The blank end stands *)
(* for a start given without further digits; it gives way to the first     *)
(* real end.                                                               *)
(***************************************************************************)
EXTENDS Naturals

CONSTANTS Start, End, Blank, Color

VARIABLE registry     \* registered start -> colour and ends

Entry == [Color : Color, Ends : SUBSET End]

Init == registry = [s \in {} |-> s]

Entered(s, entry) == [x \in DOMAIN registry \cup {s} |->
                         IF x = s THEN entry ELSE registry[x]]

Register(s, e, c) ==
    \/ /\ s \notin DOMAIN registry
       /\ registry' = Entered(s, [Color |-> c, Ends |-> {e}])
    \/ /\ s \in DOMAIN registry
       /\ registry[s].Color = c
       /\ e \notin registry[s].Ends
       /\ registry' = Entered(s, [Color |-> c,
                                  Ends |-> (registry[s].Ends \cup {e}) \
                                     (IF registry[s].Ends = {Blank}
                                      THEN {Blank} ELSE {})])

Next == \E s \in Start, e \in End, c \in Color : Register(s, e, c)

Spec == Init /\ [][Next]_registry

=============================================================================
