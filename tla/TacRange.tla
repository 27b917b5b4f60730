------------------------------ MODULE TacRange ------------------------------
(***************************************************************************)
(* TAC ranges as pkg/logic/tac.go orders and compares them.                *)
(*                                                                         *)
(* InsertTac pads both bounds of a range to a fixed width (fillRight), so  *)
(* the string order of padded bounds is a total order: a bound is modelled *)
(* by its position in that order.  The storage key is the two padded       *)
(* bounds joined by "-"; both have fixed width, so keys compare            *)
(* lexicographically: first by start, then by end.                         *)
(***************************************************************************)
EXTENDS Naturals

CONSTANT
    Pos      \* the padded bounds that can occur, as positions in their order

ASSUME PosAssumption == Pos \subseteq Nat

\* The keys of well-formed ranges: InsertTac answers invalid_value to the rest.
Key == {k \in Pos \X Pos : k[1] <= k[2]}

\* StartRangeTac and EndRangeTac, as the key holds them.
StartOf(k) == k[1]
EndOf(k) == k[2]

\* The order of keys, in which PrevTacInfo and NextTacInfo walk.
Less(a, b) ==
    \/ a[1] < b[1]
    \/ a[1] = b[1] /\ a[2] < b[2]

\* Range a contains range b: the code's isParent with a the visited range,
\* its isChild with b the visited range.
Encloses(a, b) == StartOf(a) <= StartOf(b) /\ EndOf(a) >= EndOf(b)

\* The ranges overlap and neither contains the other.
Crosses(a, b) ==
    /\ StartOf(a) <= EndOf(b)
    /\ StartOf(b) <= EndOf(a)
    /\ ~Encloses(a, b)
    /\ ~Encloses(b, a)

=============================================================================
